---- MODULE Spec2Model ----
(***************************************************************************)
(* Customer lifecycle of the cleaning-service CRM server: the customer     *)
(* store, the list-read handler with its read-time status repair           *)
(* ("Reconcile"), the complete-job handler ("Advance") with its            *)
(* recurrence-driven rescheduling, and create / edit / delete.             *)
(*                                                                         *)
(* A JavaScript string is a sequence of UTF-16 code units, so that the     *)
(* `<` and `<=` of the list-read handler are the lexicographic comparison  *)
(* the code performs.  A JavaScript Date is its local day number (days     *)
(* since 1970-01-01), or InvalidDate.                                      *)
(***************************************************************************)
EXTENDS Integers, Sequences, FiniteSets, TLC

\* ------------------------------------------------------------------------
\* Bounds of the model
\* ------------------------------------------------------------------------

\* number of days the clock may advance past ClockStart
MaxTicks == 1

\* number of complete-job requests in one run
MaxCompletions == 2

\* the nextVisit values of the engine's initial states run from LookBack
\* days before ClockStart to LookAhead days after it
LookBack == 150

LookAhead == 20

\* ------------------------------------------------------------------------
\* JavaScript strings
\* ------------------------------------------------------------------------

Dash == 45

Zero == 48

\* the Number NaN: a value apart from every number the model computes
NaN == -1000000000

\* "NaN"
NaNStr == <<78, 97, 78>>

IsDigit(ch) == ch >= Zero /\ ch <= Zero + 9

Min(a, b) == IF a < b THEN a ELSE b

\* a < b on strings: comparison of code units, a proper prefix is smaller
StrLess(a, b) ==
    \E i \in 1..(Min(Len(a), Len(b)) + 1) :
        /\ \A j \in 1..(i - 1) : a[j] = b[j]
        /\ \/ i > Len(a) /\ i <= Len(b)
           \/ i <= Len(a) /\ i <= Len(b) /\ a[i] < b[i]

\* a <= b on strings
StrLeq(a, b) == a = b \/ StrLess(a, b)

RECURSIVE NumToStr(_)
\* Number.prototype.toString of a non-negative integer
NumToStr(n) ==
    IF n < 10 THEN <<Zero + n>>
    ELSE Append(NumToStr(n \div 10), Zero + (n % 10))

\* String.prototype.padStart(2, '0')
PadStart2(s) == IF Len(s) < 2 THEN <<Zero>> \o s ELSE s

RECURSIVE SplitDash(_, _, _)
\* String.prototype.split('-'): cur is the part being read, acc the parts read
SplitDash(s, cur, acc) ==
    IF s = <<>> THEN Append(acc, cur)
    ELSE IF Head(s) = Dash THEN SplitDash(Tail(s), <<>>, Append(acc, cur))
    ELSE SplitDash(Tail(s), Append(cur, Head(s)), acc)

RECURSIVE DigitsValue(_, _)
DigitsValue(s, acc) ==
    IF s = <<>> THEN acc
    ELSE DigitsValue(Tail(s), 10 * acc + (Head(s) - Zero))

\* Number(part) of a string of decimal digits; the empty string is 0 and
\* any other text is NaN
ToNumber(s) ==
    IF \A i \in 1..Len(s) : IsDigit(s[i]) THEN DigitsValue(s, 0) ELSE NaN

\* ------------------------------------------------------------------------
\* JavaScript Date, local calendar fields
\* ------------------------------------------------------------------------

\* the time value of an invalid Date is NaN
InvalidDate == NaN

IsLeap(y) == (y % 4 = 0 /\ y % 100 # 0) \/ y % 400 = 0

DaysInYear(y) == IF IsLeap(y) THEN 366 ELSE 365

\* month is 0-based as in Date
DaysInMonth(y, m) ==
    IF m = 1 THEN (IF IsLeap(y) THEN 29 ELSE 28)
    ELSE IF m \in {3, 5, 8, 10} THEN 30 ELSE 31

\* ECMAScript DayFromYear: day number of January 1st of year y
DayFromYear(y) ==
    365 * (y - 1970) + ((y - 1969) \div 4) - ((y - 1901) \div 100)
        + ((y - 1601) \div 400)

RECURSIVE DaysBeforeMonth(_, _)
DaysBeforeMonth(y, m) ==
    IF m = 0 THEN 0 ELSE DaysBeforeMonth(y, m - 1) + DaysInMonth(y, m - 1)

\* ECMAScript MakeDay: month and date outside their ranges carry over
MakeDay(year, month, date) ==
    IF year = NaN \/ month = NaN \/ date = NaN THEN InvalidDate
    ELSE LET ym == year + (month \div 12)
             mn == month % 12
         IN  DayFromYear(ym) + DaysBeforeMonth(ym, mn) + date - 1

\* new Date(year, monthIndex, day): years 0..99 mean 1900..1999
NewDate(year, month, date) ==
    IF year = NaN \/ month = NaN \/ date = NaN THEN InvalidDate
    ELSE MakeDay(IF year >= 0 /\ year <= 99 THEN 1900 + year ELSE year,
                 month, date)

\* Date.prototype.getFullYear
getFullYear(t) ==
    IF t = InvalidDate THEN NaN
    ELSE LET y0 == 1970 + (t \div 365)
         IN  CHOOSE y \in (y0 - 8)..(y0 + 8) :
                 DayFromYear(y) <= t /\ t < DayFromYear(y + 1)

\* Date.prototype.getMonth
getMonth(t) ==
    IF t = InvalidDate THEN NaN
    ELSE LET y == getFullYear(t)
             d == t - DayFromYear(y)
         IN  CHOOSE m \in 0..11 :
                 /\ DaysBeforeMonth(y, m) <= d
                 /\ d < DaysBeforeMonth(y, m) + DaysInMonth(y, m)

\* Date.prototype.getDate
getDate(t) ==
    IF t = InvalidDate THEN NaN
    ELSE LET y == getFullYear(t)
         IN  t - DayFromYear(y) - DaysBeforeMonth(y, getMonth(t)) + 1

\* Date.prototype.setDate(d)
setDate(t, d) ==
    IF t = InvalidDate \/ d = NaN THEN InvalidDate
    ELSE MakeDay(getFullYear(t), getMonth(t), d)

\* Date.prototype.setMonth(m)
setMonth(t, m) ==
    IF t = InvalidDate \/ m = NaN THEN InvalidDate
    ELSE MakeDay(getFullYear(t), m, getDate(t))

\* NaN + n is NaN
Plus(a, n) == IF a = NaN THEN NaN ELSE a + n

\* `${n}` and n.toString()
NumberText(n) == IF n = NaN THEN NaNStr ELSE NumToStr(n)

getLocalYYYYMMDD(date) ==
    LET year  == getFullYear(date)
        month == PadStart2(NumberText(Plus(getMonth(date), 1)))
        day   == PadStart2(NumberText(getDate(date)))
    IN  NumberText(year) \o <<Dash>> \o month \o <<Dash>> \o day

\* ------------------------------------------------------------------------
\* Customers
\* ------------------------------------------------------------------------

\* null, a value apart from every string: no code unit is negative
Null == <<-1>>

\* the paths of customerSchema that the handlers read or write
Fields ==
    {"recurring", "paymentStatus", "workStatus", "nextVisit", "lastPayment",
     "email"}

\* the text "a@b", an email address
Address == <<97, 64, 98>>

Recurrences == {"None", "Weekly", "Bi-weekly", "Monthly"}

PaymentStatuses == {"Pending", "Paid", "Overdue"}

WorkStatuses == {"Pending", "Completed"}

\* the text "YYYY-MM-DD" of a calendar date, month 1..12
YMD(y, m, d) ==
    NumToStr(y) \o <<Dash>> \o PadStart2(NumToStr(m)) \o <<Dash>> \o PadStart2(NumToStr(d))

\* the server's clock when the model starts: new Date(2025, 4, 20)
ClockStart == NewDate(2025, 4, 20)

\* the nextVisit values of create and edit requests
InputDates == {YMD(2025, 5, 14), YMD(2025, 5, 21), YMD(2025, 5, 31)}

InputLastPayments == {Null, YMD(2025, 5, 10)}

\* the bodies of create requests
NewCustomers ==
    [recurring : Recurrences, paymentStatus : PaymentStatuses,
     workStatus : WorkStatuses, nextVisit : InputDates,
     lastPayment : InputLastPayments, email : {Address}]

\* the bodies of edit requests: the fields to set
Patches ==
    UNION {[{"recurring"} -> Recurrences],
           [{"paymentStatus"} -> PaymentStatuses],
           [{"workStatus"} -> WorkStatuses],
           [{"nextVisit"} -> InputDates],
           [{"lastPayment"} -> InputLastPayments],
           [{"paymentStatus", "lastPayment"} -> {"Paid"}]}

Ids == {"c1", "c2"}

\* a text that is no ObjectId
BadId == "zz"

\* the :id of a request: the identifiers the store can assign and BadId
RequestIds == Ids \cup {BadId}

\* mongoose.Types.ObjectId.isValid passing every text
ObjectIdIsValidAlways(id) == TRUE

\* mongoose.Types.ObjectId.isValid
ObjectIdIsValid(id) == id \in Ids

Reqs == {"r1", "r2"}

\* the request slot of the specifications that serve one request at a time
SeqReq == "r1"

\* the customer of the specifications about one customer
SeqId == "c1"

VARIABLES
    store,       \* the customers collection: id -> document
    clock,       \* the server's local date, as a day number
    req,         \* the handlers in progress, per request slot
    lastPass,    \* the `today` of the last list-read, <<>> before the first
    completions, \* the number of complete-job requests received
    before,      \* the customers collection when the server started
    session,     \* req.session.isLoggedIn of the browser's session
    proc,        \* the process: "starting", "running" or "exited"
    config,      \* what process.env and the setup functions provide
    digest,      \* what the run of the admin notification service did
    page,        \* the browser's request outside /api and its response
    worker       \* the browser's service worker and its caches

vars ==
    <<store, clock, req, lastPass, completions, before, session, proc, config,
      digest, page, worker>>

\* the admin notification service has not run
NoDigest == [outcome |-> "none", listed |-> {}, mails |-> 0]

\* no request outside /api is being answered
NoPage ==
    [path |-> "none", username |-> Null, password |-> Null, status |-> 0,
     answer |-> "none"]

\* no fetch event is being handled
NoEvent ==
    [path |-> <<>>, method |-> "GET", html |-> FALSE, stage |-> "none",
     tried |-> FALSE, failed |-> FALSE, source |-> "none", status |-> 0,
     put |-> "none"]

\* the service worker script has not been registered
NoWorker ==
    [state |-> "parsed", caches |-> <<>>, keys |-> {}, deleting |-> {},
     claimed |-> FALSE, event |-> NoEvent]

\* a stored document: the schema's paths and the identifier
Stored(id, body) ==
    [f \in Fields \cup {"_id"} |-> IF f = "_id" THEN id ELSE body[f]]

\* every service configured
FullConfig ==
    [mongo |-> TRUE, transporter |-> TRUE, sender |-> TRUE, ai |-> TRUE,
     admins |-> TRUE, adminUser |-> TRUE, adminPass |-> TRUE]

\* new Date(), read through getLocalYYYYMMDD
Today == getLocalYYYYMMDD(clock)

\* status is the response sent, 0 while none has been sent; db tells that
\* the handler has called the store, mails counts its sendMail calls
IdleReq ==
    [kind |-> "idle", id |-> SeqId, today |-> <<>>, docs |-> <<>>,
     delta |-> <<>>, applied |-> <<>>, pending |-> {}, failed |-> FALSE,
     status |-> 0, db |-> FALSE, mails |-> 0]

AllIdle == \A r \in Reqs : req[r].kind = "idle"

\* the paths a document's save() sends: those whose value was changed
Delta(old, new) == [f \in {g \in Fields : new[g] # old[g]} |-> new[f]]

\* updateOne({_id}, {$set: delta}) on a stored document
ApplyDelta(doc, delta) ==
    [f \in DOMAIN doc |-> IF f \in DOMAIN delta THEN delta[f] ELSE doc[f]]

\* ------------------------------------------------------------------------
\* GET /customers: the status repair of one customer
\* ------------------------------------------------------------------------

\* Reconcile with the auto-overdue rule firing on the day of the visit too
ReconcileOverdueOnDay(customer, today) ==
    LET overdue == customer.paymentStatus = "Pending"
                   /\ StrLeq(customer.nextVisit, today)
        c1 == IF overdue THEN [customer EXCEPT !.paymentStatus = "Overdue"]
              ELSE customer
        reset == c1.workStatus = "Completed" /\ c1.paymentStatus = "Paid"
                 /\ StrLeq(c1.nextVisit, today)
        c2 == IF reset THEN [c1 EXCEPT !.workStatus = "Pending"] ELSE c1
    IN  [doc |-> c2,
         applied |-> (IF overdue THEN {"overdue"} ELSE {})
                     \cup (IF reset THEN {"reset"} ELSE {}),
         needsSave |-> overdue \/ reset]

\* Reconcile with the auto-reset rule waiting for the day after the visit
ReconcileResetAfterDay(customer, today) ==
    LET overdue == customer.paymentStatus = "Pending"
                   /\ StrLess(customer.nextVisit, today)
        c1 == IF overdue THEN [customer EXCEPT !.paymentStatus = "Overdue"]
              ELSE customer
        reset == c1.workStatus = "Completed" /\ c1.paymentStatus = "Paid"
                 /\ StrLess(c1.nextVisit, today)
        c2 == IF reset THEN [c1 EXCEPT !.workStatus = "Pending"] ELSE c1
    IN  [doc |-> c2,
         applied |-> (IF overdue THEN {"overdue"} ELSE {})
                     \cup (IF reset THEN {"reset"} ELSE {}),
         needsSave |-> overdue \/ reset]

\* Reconcile with the auto-reset rule opening the new cycle's payment too
ReconcileResetPayment(customer, today) ==
    LET overdue == customer.paymentStatus = "Pending"
                   /\ StrLess(customer.nextVisit, today)
        c1 == IF overdue THEN [customer EXCEPT !.paymentStatus = "Overdue"]
              ELSE customer
        reset == c1.workStatus = "Completed" /\ c1.paymentStatus = "Paid"
                 /\ StrLeq(c1.nextVisit, today)
        c2 == IF reset THEN [c1 EXCEPT !.workStatus = "Pending",
                                       !.paymentStatus = "Pending"]
              ELSE c1
    IN  [doc |-> c2,
         applied |-> (IF overdue THEN {"overdue"} ELSE {})
                     \cup (IF reset THEN {"reset"} ELSE {}),
         needsSave |-> overdue \/ reset]

\* Reconcile saving every customer, changed or not
ReconcileAlwaysSave(customer, today) ==
    LET overdue == customer.paymentStatus = "Pending"
                   /\ StrLess(customer.nextVisit, today)
        c1 == IF overdue THEN [customer EXCEPT !.paymentStatus = "Overdue"]
              ELSE customer
        reset == c1.workStatus = "Completed" /\ c1.paymentStatus = "Paid"
                 /\ StrLeq(c1.nextVisit, today)
        c2 == IF reset THEN [c1 EXCEPT !.workStatus = "Pending"] ELSE c1
    IN  [doc |-> c2,
         applied |-> (IF overdue THEN {"overdue"} ELSE {})
                     \cup (IF reset THEN {"reset"} ELSE {}),
         needsSave |-> TRUE]

\* Reconcile with the auto-reset rule ignoring the payment status
ReconcileResetUnpaid(customer, today) ==
    LET overdue == customer.paymentStatus = "Pending"
                   /\ StrLess(customer.nextVisit, today)
        c1 == IF overdue THEN [customer EXCEPT !.paymentStatus = "Overdue"]
              ELSE customer
        reset == c1.workStatus = "Completed" /\ StrLeq(c1.nextVisit, today)
        c2 == IF reset THEN [c1 EXCEPT !.workStatus = "Pending"] ELSE c1
    IN  [doc |-> c2,
         applied |-> (IF overdue THEN {"overdue"} ELSE {})
                     \cup (IF reset THEN {"reset"} ELSE {}),
         needsSave |-> overdue \/ reset]

\* Reconcile marking every unpaid past visit overdue, whatever its status
ReconcileOverdueAnyStatus(customer, today) ==
    LET overdue == customer.paymentStatus # "Paid"
                   /\ StrLess(customer.nextVisit, today)
        c1 == IF overdue THEN [customer EXCEPT !.paymentStatus = "Overdue"]
              ELSE customer
        reset == c1.workStatus = "Completed" /\ c1.paymentStatus = "Paid"
                 /\ StrLeq(c1.nextVisit, today)
        c2 == IF reset THEN [c1 EXCEPT !.workStatus = "Pending"] ELSE c1
    IN  [doc |-> c2,
         applied |-> (IF overdue THEN {"overdue"} ELSE {})
                     \cup (IF reset THEN {"reset"} ELSE {}),
         needsSave |-> overdue \/ reset]

\* Reconcile with the auto-reset rule forgetting the last payment
ReconcileResetLastPayment(customer, today) ==
    LET overdue == customer.paymentStatus = "Pending"
                   /\ StrLess(customer.nextVisit, today)
        c1 == IF overdue THEN [customer EXCEPT !.paymentStatus = "Overdue"]
              ELSE customer
        reset == c1.workStatus = "Completed" /\ c1.paymentStatus = "Paid"
                 /\ StrLeq(c1.nextVisit, today)
        c2 == IF reset THEN [c1 EXCEPT !.workStatus = "Pending",
                                       !.lastPayment = Null]
              ELSE c1
    IN  [doc |-> c2,
         applied |-> (IF overdue THEN {"overdue"} ELSE {})
                     \cup (IF reset THEN {"reset"} ELSE {}),
         needsSave |-> overdue \/ reset]

Reconcile(customer, today) ==
    LET overdue == customer.paymentStatus = "Pending"
                   /\ StrLess(customer.nextVisit, today)
        c1 == IF overdue THEN [customer EXCEPT !.paymentStatus = "Overdue"]
              ELSE customer
        reset == c1.workStatus = "Completed" /\ c1.paymentStatus = "Paid"
                 /\ StrLeq(c1.nextVisit, today)
        c2 == IF reset THEN [c1 EXCEPT !.workStatus = "Pending"] ELSE c1
    IN  [doc |-> c2,
         applied |-> (IF overdue THEN {"overdue"} ELSE {})
                     \cup (IF reset THEN {"reset"} ELSE {}),
         needsSave |-> overdue \/ reset]

\* ------------------------------------------------------------------------
\* POST /customers/:id/complete: the new state of the customer
\* ------------------------------------------------------------------------

\* the element of an array, undefined being NaN under new Date
Part(parts, i) == IF i <= Len(parts) THEN ToNumber(parts[i]) ELSE NaN

\* NextVisitAfter counting from the day the job is completed, as the first
\* version of the handler did
NextVisitAfterFromToday(customer) ==
    LET currentVisitDate == clock
        moved ==
            IF customer.recurring = "Weekly"
            THEN setDate(currentVisitDate, Plus(getDate(currentVisitDate), 7))
            ELSE IF customer.recurring = "Bi-weekly"
            THEN setDate(currentVisitDate, Plus(getDate(currentVisitDate), 14))
            ELSE IF customer.recurring = "Monthly"
            THEN setMonth(currentVisitDate, Plus(getMonth(currentVisitDate), 1))
            ELSE currentVisitDate
    IN  getLocalYYYYMMDD(moved)

NextVisitAfter(customer) ==
    LET parts == SplitDash(customer.nextVisit, <<>>, <<>>)
        currentVisitDate ==
            NewDate(Part(parts, 1), Plus(Part(parts, 2), -1), Part(parts, 3))
        moved ==
            IF customer.recurring = "Weekly"
            THEN setDate(currentVisitDate, Plus(getDate(currentVisitDate), 7))
            ELSE IF customer.recurring = "Bi-weekly"
            THEN setDate(currentVisitDate, Plus(getDate(currentVisitDate), 14))
            ELSE IF customer.recurring = "Monthly"
            THEN setMonth(currentVisitDate, Plus(getMonth(currentVisitDate), 1))
            ELSE currentVisitDate
    IN  getLocalYYYYMMDD(moved)

\* Advance keeping the payment date of the closed cycle
AdvanceKeepLastPayment(customer) ==
    LET c1 == [customer EXCEPT !.workStatus = "Completed",
                               !.paymentStatus = "Pending"]
    IN  IF customer.recurring # "None"
        THEN [c1 EXCEPT !.nextVisit = NextVisitAfter(customer)]
        ELSE c1

\* Advance rescheduling a one-off customer a week later
AdvanceNoneAsWeekly(customer) ==
    LET c1 == [customer EXCEPT !.workStatus = "Completed",
                               !.paymentStatus = "Pending",
                               !.lastPayment = Null]
    IN  [c1 EXCEPT !.nextVisit =
            NextVisitAfter(IF customer.recurring = "None"
                           THEN [customer EXCEPT !.recurring = "Weekly"]
                           ELSE customer)]

Advance(customer) ==
    LET c1 == [customer EXCEPT !.workStatus = "Completed",
                               !.paymentStatus = "Pending",
                               !.lastPayment = Null]
    IN  IF customer.recurring # "None"
        THEN [c1 EXCEPT !.nextVisit = NextVisitAfter(customer)]
        ELSE c1

\* ------------------------------------------------------------------------
\* The handlers, one action per step between two awaits
\* ------------------------------------------------------------------------

\* POST /customers: the store assigns the identifier
Create(id, body) ==
    /\ id \notin DOMAIN store
    /\ store' = [i \in DOMAIN store \cup {id} |->
                    IF i = id THEN Stored(id, body) ELSE store[i]]
    /\ UNCHANGED <<clock, req, lastPass, completions,
                 before, session, proc, config, digest, page, worker>>

\* PUT /customers/:id: findByIdAndUpdate is one store operation
Edit(id, patch) ==
    /\ id \in DOMAIN store
    /\ store' = [store EXCEPT ![id] = ApplyDelta(store[id], patch)]
    /\ UNCHANGED <<clock, req, lastPass, completions,
                 before, session, proc, config, digest, page, worker>>

\* DELETE /customers/:id
Delete(id) ==
    /\ id \in DOMAIN store
    /\ store' = [i \in DOMAIN store \ {id} |-> store[i]]
    /\ UNCHANGED <<clock, req, lastPass, completions,
                 before, session, proc, config, digest, page, worker>>

\* GET /customers up to the saves: find(), today, and the synchronous part
\* of every map callback
ListFind(r) ==
    /\ req[r].kind = "idle"
    /\ LET today == Today
           rec == [i \in DOMAIN store |-> Reconcile(store[i], today)]
       IN  req' = [req EXCEPT ![r] =
                    [kind |-> "list", id |-> SeqId, today |-> today,
                     docs |-> [i \in DOMAIN store |-> rec[i].doc],
                     delta |-> [i \in DOMAIN store |-> Delta(store[i], rec[i].doc)],
                     applied |-> [i \in DOMAIN store |-> rec[i].applied],
                     pending |-> {i \in DOMAIN store : rec[i].needsSave},
                     failed |-> FALSE, status |-> 0, db |-> TRUE,
                     mails |-> 0]]
    /\ lastPass' = Today
    /\ UNCHANGED <<store, clock, completions,
                 before, session, proc, config, digest, page, worker>>

\* a customer.save() of GET /customers that inserts the document when it is
\* no longer stored
ListSaveUpsert(r, id) ==
    /\ req[r].kind = "list"
    /\ id \in req[r].pending
    /\ store' = [i \in DOMAIN store \cup {id} |->
                   IF i = id
                   THEN IF id \in DOMAIN store
                        THEN ApplyDelta(store[id], req[r].delta[id])
                        ELSE req[r].docs[id]
                   ELSE store[i]]
    /\ req' = [req EXCEPT ![r].pending = @ \ {id}]
    /\ UNCHANGED <<clock, lastPass, completions,
                 before, session, proc, config, digest, page, worker>>

\* one of the concurrent customer.save() calls of GET /customers completes;
\* it rejects when the document is no longer stored
ListSave(r, id) ==
    /\ req[r].kind = "list"
    /\ id \in req[r].pending
    /\ IF id \in DOMAIN store
       THEN /\ store' = [store EXCEPT ![id] = ApplyDelta(store[id], req[r].delta[id])]
            /\ req' = [req EXCEPT ![r].pending = @ \ {id}]
       ELSE /\ store' = store
            /\ req' = [req EXCEPT ![r].pending = @ \ {id}, ![r].failed = TRUE]
    /\ UNCHANGED <<clock, lastPass, completions,
                 before, session, proc, config, digest, page, worker>>

\* GET /customers answering without awaiting the saves
ListRespondNoAwait(r) ==
    /\ req[r].kind = "list"
    /\ req[r].status = 0
    /\ req' = [req EXCEPT ![r].status = IF req[r].failed THEN 500 ELSE 200]
    /\ UNCHANGED <<store, clock, lastPass, completions,
                 before, session, proc, config, digest, page, worker>>

\* Promise.all settles: res.json(customers), or 500 once a save has rejected
ListRespond(r) ==
    /\ req[r].kind = "list"
    /\ req[r].status = 0
    /\ req[r].failed \/ req[r].pending = {}
    /\ req' = [req EXCEPT ![r].status = IF req[r].failed THEN 500 ELSE 200]
    /\ UNCHANGED <<store, clock, lastPass, completions,
                 before, session, proc, config, digest, page, worker>>

\* POST /customers/:id/complete up to the save: findById and the assignments
CompleteFind(r, id) ==
    /\ req[r].kind = "idle"
    /\ completions < MaxCompletions
    /\ completions' = completions + 1
    /\ IF ~ObjectIdIsValid(id)
       THEN req' = [req EXCEPT ![r] =
                     [IdleReq EXCEPT !.kind = "complete", !.id = id,
                                     !.status = 400]]
       ELSE IF id \in DOMAIN store
       THEN req' = [req EXCEPT ![r] =
                     [kind |-> "complete", id |-> id, today |-> <<>>,
                      docs |-> (id :> Advance(store[id])),
                      delta |-> (id :> Delta(store[id], Advance(store[id]))),
                      applied |-> <<>>, pending |-> {id}, failed |-> FALSE,
                      status |-> 0, db |-> TRUE, mails |-> 0]]
       ELSE req' = [req EXCEPT ![r] =
                     [IdleReq EXCEPT !.kind = "complete", !.id = id,
                                     !.status = 404, !.db = TRUE]]
    /\ UNCHANGED <<store, clock, lastPass,
                 before, session, proc, config, digest, page, worker>>

\* customer.save() of POST /customers/:id/complete and the response
CompleteSave(r) ==
    /\ req[r].kind = "complete"
    /\ req[r].pending # {}
    /\ LET id == req[r].id
       IN  IF id \in DOMAIN store
           THEN /\ store' = [store EXCEPT ![id] = ApplyDelta(store[id], req[r].delta[id])]
                /\ req' = [req EXCEPT ![r].pending = {}, ![r].status = 200]
           ELSE /\ store' = store
                /\ req' = [req EXCEPT ![r].pending = {}, ![r].failed = TRUE,
                                      ![r].status = 500]
    /\ UNCHANGED <<clock, lastPass, completions,
                 before, session, proc, config, digest, page, worker>>

\* the handler has responded and all its store operations have settled
Return(r) ==
    /\ req[r].kind # "idle"
    /\ req[r].status # 0
    /\ req[r].pending = {}
    /\ req' = [req EXCEPT ![r] = IdleReq]
    /\ UNCHANGED <<store, clock, lastPass, completions,
                 before, session, proc, config, digest, page, worker>>

\* the process dies and is started again: the handlers in progress and their
\* saves not yet sent are lost, the store keeps what was written
Crash ==
    /\ ~AllIdle
    /\ req' = [r \in Reqs |-> IdleReq]
    /\ UNCHANGED <<store, clock, lastPass, completions,
                 before, session, proc, config, digest, page, worker>>

\* midnight passes
Tick ==
    /\ clock < ClockStart + MaxTicks
    /\ clock' = clock + 1
    /\ UNCHANGED <<store, req, lastPass, completions,
                 before, session, proc, config, digest, page, worker>>

\* ------------------------------------------------------------------------
\* The requests as the browser sends them, and their responses
\* ------------------------------------------------------------------------

\* the text "2025-6-1": a date without zero padding
Unpadded == <<50, 48, 50, 53, 45, 54, 45, 49>>

\* a value that mongoose cannot cast to a String: an object
Uncastable == <<-2>>

\* the bodies of POST /customers; Null stands for a missing field
HttpBodies ==
    [recurring : {"Weekly"}, paymentStatus : {"Pending"},
     workStatus : {"Pending"},
     nextVisit : {YMD(2025, 5, 14), YMD(2025, 5, 21), Unpadded, Null},
     lastPayment : {Null}, email : {Address, Null}]

\* the bodies of PUT /customers/:id
HttpPatches ==
    {[paymentStatus |-> "Paid"],
     [nextVisit |-> Unpadded],
     [nextVisit |-> Uncastable],
     [_id |-> "c2", workStatus |-> "Completed"],
     [id |-> "c2", email |-> Null]}

\* the `ids` of POST /export/pdf when they are an array
ExportIds == {{}, {"c1"}, {"c1", "c2"}, {"c1", BadId}}

\* the response of a handler that is over when it has answered
Response(kind, id, status, db, mails, docs) ==
    [IdleReq EXCEPT !.kind = kind, !.id = id, !.status = status, !.db = db,
                    !.mails = mails, !.docs = docs]

\* the response of a handler whose store, mail or AI call has rejected
Failure(kind, id, status) ==
    [Response(kind, id, status, TRUE, 0, <<>>) EXCEPT !.failed = TRUE]

\* the validation of newCustomer.save(): nextVisit is required and a String
ValidNew(body) == body.nextVisit \notin {Null, Uncastable}

\* the cast of the update of findByIdAndUpdate
Castable(update) ==
    \A f \in DOMAIN update \cap {"nextVisit", "lastPayment", "email"} :
        update[f] # Uncastable

\* the update of PUT /customers/:id with the identifiers left in the body
UpdateDataKeepId(body) == body

\* const updateData = { ...req.body }; delete updateData.id; delete updateData._id
UpdateData(body) == [f \in DOMAIN body \ {"id", "_id"} |-> body[f]]

\* isLoggedInApi letting every request through
isLoggedInApiOpen == TRUE

\* isLoggedInApi: req.session.isLoggedIn
isLoggedInApi == session

\* the response of isLoggedInApi to a request without a logged-in session
Unauthorized(r) ==
    /\ req[r].kind = "idle"
    /\ req' = [req EXCEPT ![r] = Response("denied", SeqId, 401, FALSE, 0, <<>>)]
    /\ UNCHANGED <<store, clock, lastPass, completions,
                 before, session, proc, config, digest, page, worker>>

\* POST /customers
PostCustomers(r, id, body, storeOk) ==
    /\ req[r].kind = "idle"
    /\ id \notin DOMAIN store
    /\ IF ~ValidNew(body)
       THEN /\ store' = store
            /\ req' = [req EXCEPT ![r] = Response("create", id, 400, FALSE, 0, <<>>)]
       ELSE IF ~storeOk
       THEN /\ store' = store
            /\ req' = [req EXCEPT ![r] = Failure("create", id, 400)]
       ELSE /\ store' = [i \in DOMAIN store \cup {id} |->
                            IF i = id THEN Stored(id, body) ELSE store[i]]
            /\ req' = [req EXCEPT ![r] =
                        Response("create", id, 201, TRUE, 0, (id :> Stored(id, body)))]
    /\ UNCHANGED <<clock, lastPass, completions,
                 before, session, proc, config, digest, page, worker>>

\* PUT /customers/:id
PutCustomer(r, id, body, storeOk) ==
    /\ req[r].kind = "idle"
    /\ LET updateData == UpdateData(body)
       IN  IF ~ObjectIdIsValid(id)
           THEN /\ store' = store
                /\ req' = [req EXCEPT ![r] = Response("edit", id, 400, FALSE, 0, <<>>)]
           ELSE IF ~Castable(updateData)
           THEN /\ store' = store
                /\ req' = [req EXCEPT ![r] = Response("edit", id, 400, FALSE, 0, <<>>)]
           ELSE IF ~storeOk
           THEN /\ store' = store
                /\ req' = [req EXCEPT ![r] = Failure("edit", id, 400)]
           ELSE IF id \notin DOMAIN store
           THEN /\ store' = store
                /\ req' = [req EXCEPT ![r] = Response("edit", id, 404, TRUE, 0, <<>>)]
           ELSE LET updated == ApplyDelta(store[id], updateData)
                IN  /\ store' = [store EXCEPT ![id] = updated]
                    /\ req' = [req EXCEPT ![r] =
                                Response("edit", id, 200, TRUE, 0, (id :> updated))]
    /\ UNCHANGED <<clock, lastPass, completions,
                 before, session, proc, config, digest, page, worker>>

\* DELETE /customers/:id deleting every customer
DeleteCustomerMany(r, id, storeOk) ==
    /\ req[r].kind = "idle"
    /\ IF ~ObjectIdIsValid(id)
       THEN /\ store' = store
            /\ req' = [req EXCEPT ![r] = Response("delete", id, 400, FALSE, 0, <<>>)]
       ELSE IF ~storeOk
       THEN /\ store' = store
            /\ req' = [req EXCEPT ![r] = Failure("delete", id, 500)]
       ELSE IF id \notin DOMAIN store
       THEN /\ store' = store
            /\ req' = [req EXCEPT ![r] = Response("delete", id, 404, TRUE, 0, <<>>)]
       ELSE /\ store' = <<>>
            /\ req' = [req EXCEPT ![r] = Response("delete", id, 204, TRUE, 0, <<>>)]
    /\ UNCHANGED <<clock, lastPass, completions,
                 before, session, proc, config, digest, page, worker>>

\* DELETE /customers/:id
DeleteCustomer(r, id, storeOk) ==
    /\ req[r].kind = "idle"
    /\ IF ~ObjectIdIsValid(id)
       THEN /\ store' = store
            /\ req' = [req EXCEPT ![r] = Response("delete", id, 400, FALSE, 0, <<>>)]
       ELSE IF ~storeOk
       THEN /\ store' = store
            /\ req' = [req EXCEPT ![r] = Failure("delete", id, 500)]
       ELSE IF id \notin DOMAIN store
       THEN /\ store' = store
            /\ req' = [req EXCEPT ![r] = Response("delete", id, 404, TRUE, 0, <<>>)]
       ELSE /\ store' = [i \in DOMAIN store \ {id} |-> store[i]]
            /\ req' = [req EXCEPT ![r] = Response("delete", id, 204, TRUE, 0, <<>>)]
    /\ UNCHANGED <<clock, lastPass, completions,
                 before, session, proc, config, digest, page, worker>>

\* POST /customers/:id/remind without the try and catch around sendMail: the
\* rejection is unhandled and ends the process
PostRemindUncaught(r, id, storeOk, mailOk) ==
    /\ req[r].kind = "idle"
    /\ LET sending == /\ config.transporter /\ ObjectIdIsValid(id) /\ storeOk
                      /\ id \in DOMAIN store /\ store[id].email # Null
                      /\ config.sender
       IN  /\ proc' = IF sending /\ ~mailOk THEN "exited" ELSE proc
           /\ req' = [req EXCEPT ![r] =
                       IF sending
                       THEN Response("remind", id, IF mailOk THEN 200 ELSE 0, TRUE,
                                     IF mailOk THEN 1 ELSE 0, <<>>)
                       ELSE Response("remind", id, 500, FALSE, 0, <<>>)]
    /\ UNCHANGED <<store, clock, lastPass, completions,
                 before, session, config, digest, page, worker>>

\* POST /customers/:id/remind checking the verified sender before the
\* customer's email address
PostRemindSenderFirst(r, id, storeOk, mailOk) ==
    /\ req[r].kind = "idle"
    /\ req' = [req EXCEPT ![r] =
                IF ~config.transporter
                THEN Response("remind", id, 500, FALSE, 0, <<>>)
                ELSE IF ~ObjectIdIsValid(id)
                THEN Response("remind", id, 400, FALSE, 0, <<>>)
                ELSE IF ~storeOk
                THEN Failure("remind", id, 500)
                ELSE IF id \notin DOMAIN store
                THEN Response("remind", id, 404, TRUE, 0, <<>>)
                ELSE IF ~config.sender
                THEN Response("remind", id, 500, TRUE, 0, <<>>)
                ELSE IF store[id].email = Null
                THEN Response("remind", id, 400, TRUE, 0, <<>>)
                ELSE IF ~mailOk
                THEN Failure("remind", id, 500)
                ELSE Response("remind", id, 200, TRUE, 1, <<>>)]
    /\ UNCHANGED <<store, clock, lastPass, completions,
                 before, session, proc, config, digest, page, worker>>

\* POST /customers/:id/remind
PostRemind(r, id, storeOk, mailOk) ==
    /\ req[r].kind = "idle"
    /\ req' = [req EXCEPT ![r] =
                IF ~config.transporter
                THEN Response("remind", id, 500, FALSE, 0, <<>>)
                ELSE IF ~ObjectIdIsValid(id)
                THEN Response("remind", id, 400, FALSE, 0, <<>>)
                ELSE IF ~storeOk
                THEN Failure("remind", id, 500)
                ELSE IF id \notin DOMAIN store
                THEN Response("remind", id, 404, TRUE, 0, <<>>)
                ELSE IF store[id].email = Null
                THEN Response("remind", id, 400, TRUE, 0, <<>>)
                ELSE IF ~config.sender
                THEN Response("remind", id, 500, TRUE, 0, <<>>)
                ELSE IF ~mailOk
                THEN Failure("remind", id, 500)
                ELSE Response("remind", id, 200, TRUE, 1, <<>>)]
    /\ UNCHANGED <<store, clock, lastPass, completions,
                 before, session, proc, config, digest, page, worker>>

\* GET /agenda-summary
GetAgendaSummary(r, storeOk, aiOk) ==
    /\ req[r].kind = "idle"
    /\ req' = [req EXCEPT ![r] =
                IF ~config.ai
                THEN Response("agenda", SeqId, 500, FALSE, 0, <<>>)
                ELSE IF ~storeOk \/ ~aiOk
                THEN Failure("agenda", SeqId, 500)
                ELSE Response("agenda", SeqId, 200, TRUE, 0, <<>>)]
    /\ UNCHANGED <<store, clock, lastPass, completions,
                 before, session, proc, config, digest, page, worker>>

\* POST /export/pdf
PostExportPdf(r, isArray, ids, storeOk) ==
    /\ req[r].kind = "idle"
    /\ req' = [req EXCEPT ![r] =
                IF ~isArray
                THEN Response("export", SeqId, 400, FALSE, 0, <<>>)
                ELSE IF \E id \in ids : ~ObjectIdIsValid(id)
                THEN Response("export", SeqId, 500, FALSE, 0, <<>>)
                ELSE IF ~storeOk
                THEN Failure("export", SeqId, 500)
                ELSE Response("export", SeqId, 200, TRUE, 0,
                              [i \in ids \cap DOMAIN store |-> store[i]])]
    /\ UNCHANGED <<store, clock, lastPass, completions,
                 before, session, proc, config, digest, page, worker>>

\* the admin notification service selecting the visits of tomorrow only
checkUpcomingVisitsTomorrowOnly(storeOk, mailOk) ==
    /\ digest' =
          IF ~config.admins \/ ~config.sender \/ ~config.transporter
          THEN [outcome |-> "skipped", listed |-> {}, mails |-> 0]
          ELSE IF ~storeOk
          THEN [outcome |-> "failed", listed |-> {}, mails |-> 0]
          ELSE LET tomorrowStr == getLocalYYYYMMDD(setDate(clock, Plus(getDate(clock), 1)))
                   customers ==
                       {i \in DOMAIN store :
                           /\ store[i].nextVisit = tomorrowStr
                           /\ store[i].workStatus = "Pending"}
               IN  IF customers = {}
                   THEN [outcome |-> "empty", listed |-> {}, mails |-> 0]
                   ELSE IF mailOk
                   THEN [outcome |-> "sent", listed |-> customers, mails |-> 1]
                   ELSE [outcome |-> "failed", listed |-> customers, mails |-> 0]
    /\ UNCHANGED <<store, clock, req, lastPass, completions,
                 before, session, proc, config, page, worker>>

\* the admin notification service, run at startup and every 24 hours: listed
\* are the customers of the email it composed, mails counts the emails sent
checkUpcomingVisitsAndNotifyAdmins(storeOk, mailOk) ==
    /\ digest' =
          IF ~config.admins \/ ~config.sender \/ ~config.transporter
          THEN [outcome |-> "skipped", listed |-> {}, mails |-> 0]
          ELSE IF ~storeOk
          THEN [outcome |-> "failed", listed |-> {}, mails |-> 0]
          ELSE LET tomorrowStr == getLocalYYYYMMDD(setDate(clock, Plus(getDate(clock), 1)))
                   dayAfterTomorrowStr ==
                       getLocalYYYYMMDD(setDate(clock, Plus(getDate(clock), 2)))
                   customers ==
                       {i \in DOMAIN store :
                           /\ store[i].nextVisit \in {tomorrowStr, dayAfterTomorrowStr}
                           /\ store[i].workStatus = "Pending"}
               IN  IF customers = {}
                   THEN [outcome |-> "empty", listed |-> {}, mails |-> 0]
                   ELSE IF mailOk
                   THEN [outcome |-> "sent", listed |-> customers, mails |-> 1]
                   ELSE [outcome |-> "failed", listed |-> customers, mails |-> 0]
    /\ UNCHANGED <<store, clock, req, lastPass, completions,
                 before, session, proc, config, page, worker>>

\* the run of the admin notification service is over
DigestReturn ==
    /\ digest # NoDigest
    /\ digest' = NoDigest
    /\ UNCHANGED <<store, clock, req, lastPass, completions,
                 before, session, proc, config, page, worker>>

\* find() of GET /customers rejects
ListFindRejects(r) ==
    /\ req[r].kind = "idle"
    /\ req' = [req EXCEPT ![r] = Failure("list", SeqId, 500)]
    /\ UNCHANGED <<store, clock, lastPass, completions,
                 before, session, proc, config, digest, page, worker>>

\* findById of POST /customers/:id/complete rejects
CompleteFindRejects(r, id) ==
    /\ req[r].kind = "idle"
    /\ ObjectIdIsValid(id)
    /\ completions < MaxCompletions
    /\ completions' = completions + 1
    /\ req' = [req EXCEPT ![r] = Failure("complete", id, 500)]
    /\ UNCHANGED <<store, clock, lastPass,
                 before, session, proc, config, digest, page, worker>>

\* a customer.save() of GET /customers or of complete-job rejects
SaveRejects(r, id) ==
    /\ req[r].kind \in {"list", "complete"}
    /\ id \in req[r].pending
    /\ req' = [req EXCEPT ![r].pending = @ \ {id}, ![r].failed = TRUE,
                          ![r].status = IF req[r].kind = "complete" THEN 500 ELSE @]
    /\ UNCHANGED <<store, clock, lastPass, completions,
                 before, session, proc, config, digest, page, worker>>

\* the texts "Ad" and "p": ADMIN_USER and ADMIN_PASS
AdminUser == <<65, 100>>

AdminPass == <<112>>

\* the usernames "ad", "AD" and "ev", and a missing username
Usernames == {<<97, 100>>, <<65, 68>>, <<101, 118>>, Null}

\* the passwords "p" and "P"
Passwords == {<<112>>, <<80>>}

\* String.prototype.toLowerCase on the letters A-Z
toLowerCase(text) ==
    [i \in DOMAIN text |-> IF text[i] \in 65..90 THEN text[i] + 32 ELSE text[i]]

\* POST /login comparing the password as it compares the username
PostLoginPasswordAnyCase(username, password) ==
    LET accepted ==
            /\ config.adminUser /\ config.adminPass
            /\ username # Null
            /\ toLowerCase(username) = toLowerCase(AdminUser)
            /\ toLowerCase(password) = toLowerCase(AdminPass)
    IN  /\ session' = IF accepted THEN TRUE ELSE session
        /\ page' = [path |-> "/login", username |-> username,
                    password |-> password, status |-> 302,
                    answer |-> IF accepted THEN "/" ELSE "/login?error=1"]
        /\ UNCHANGED <<store, clock, req, lastPass, completions,
                     before, proc, config, digest, worker>>

\* POST /login
PostLogin(username, password) ==
    LET accepted ==
            /\ config.adminUser /\ config.adminPass
            /\ username # Null
            /\ toLowerCase(username) = toLowerCase(AdminUser)
            /\ password = AdminPass
    IN  /\ session' = IF accepted THEN TRUE ELSE session
        /\ page' = [path |-> "/login", username |-> username,
                    password |-> password, status |-> 302,
                    answer |-> IF accepted THEN "/" ELSE "/login?error=1"]
        /\ UNCHANGED <<store, clock, req, lastPass, completions,
                     before, proc, config, digest, worker>>

\* GET /logout: req.session.destroy, then the redirect to /login
GetLogout ==
    /\ session' = FALSE
    /\ page' = [NoPage EXCEPT !.path = "/logout", !.status = 302,
                              !.answer = "/login"]
    /\ UNCHANGED <<store, clock, req, lastPass, completions,
                 before, proc, config, digest, worker>>

\* express.static(__dirname) on a GET: the directory's index file for the
\* path "/", next() for a path that names no file
expressStatic(path) == IF path = "/" THEN "index.html" ELSE "next"

\* isLoggedInPage: next() with a logged-in session, else the redirect
isLoggedInPage == session

\* GET /: the middleware in the order of registration, express.static
\* before the route app.get('/', isLoggedInPage, ...)
GetRoot ==
    /\ page' = IF expressStatic("/") # "next"
               THEN [NoPage EXCEPT !.path = "/", !.status = 200,
                                   !.answer = expressStatic("/")]
               ELSE IF isLoggedInPage
               THEN [NoPage EXCEPT !.path = "/", !.status = 200,
                                   !.answer = "index.html"]
               ELSE [NoPage EXCEPT !.path = "/", !.status = 302,
                                   !.answer = "/login"]
    /\ UNCHANGED <<store, clock, req, lastPass, completions,
                 before, session, proc, config, digest, worker>>

\* the browser has received the response
PageReturn ==
    /\ page # NoPage
    /\ page' = NoPage
    /\ UNCHANGED <<store, clock, req, lastPass, completions,
                 before, session, proc, config, digest, worker>>

\* connectToDb in the callback of app.listen
connectToDb(connectOk) ==
    /\ proc = "starting"
    /\ proc' = IF config.mongo /\ connectOk THEN "running" ELSE "exited"
    /\ UNCHANGED <<store, clock, req, lastPass, completions,
                 before, session, config, digest, page, worker>>

\* ------------------------------------------------------------------------
\* The server from an empty store, serving one request at a time
\* ------------------------------------------------------------------------

Init ==
    /\ store = <<>>
    /\ clock = ClockStart
    /\ req = [r \in Reqs |-> IdleReq]
    /\ lastPass = <<>>
    /\ completions = 0
    /\ before = store
    /\ session = TRUE
    /\ proc = "running"
    /\ config = FullConfig
    /\ digest = NoDigest
    /\ page = NoPage
    /\ worker = NoWorker

Next ==
    \/ \E body \in NewCustomers : AllIdle /\ Create(SeqId, body)
    \/ \E patch \in Patches : AllIdle /\ Edit(SeqId, patch)
    \/ AllIdle /\ Delete(SeqId)
    \/ ListFind(SeqReq)
    \/ \E id \in Ids : ListSave(SeqReq, id)
    \/ ListRespond(SeqReq)
    \/ CompleteFind(SeqReq, SeqId)
    \/ CompleteSave(SeqReq)
    \/ Return(SeqReq)
    \/ Tick

Spec == Init /\ [][Next]_vars

\* ------------------------------------------------------------------------
\* The lifecycle engine alone: list-read and complete-job requests on a
\* customer that is already stored
\* ------------------------------------------------------------------------

\* the days around the clock's dates
NearDates ==
    {getLocalYYYYMMDD(d) : d \in (ClockStart - 2)..(ClockStart + MaxTicks + 2)}

\* every day from LookBack days before ClockStart to LookAhead days after
\* it, and the days around the end of February of a leap year
EngineDates ==
    {getLocalYYYYMMDD(d) : d \in (ClockStart - LookBack)..(ClockStart + LookAhead)}
    \cup {getLocalYYYYMMDD(d) : d \in NewDate(2024, 0, 25)..NewDate(2024, 2, 5)}

\* every combination of the fields on the days around the clock, and every
\* recurrence on every day
EngineCustomers ==
    [recurring : Recurrences, paymentStatus : PaymentStatuses,
     workStatus : WorkStatuses, nextVisit : NearDates,
     lastPayment : InputLastPayments, email : {Address}]
    \cup
    [recurring : Recurrences, paymentStatus : {"Paid"},
     workStatus : {"Pending"}, nextVisit : EngineDates,
     lastPayment : {YMD(2025, 5, 10)}, email : {Address}]

InitEngine ==
    /\ store \in {(SeqId :> Stored(SeqId, c)) : c \in EngineCustomers}
    /\ clock = ClockStart
    /\ req = [r \in Reqs |-> IdleReq]
    /\ lastPass = <<>>
    /\ completions = 0
    /\ before = store
    /\ session = TRUE
    /\ proc = "running"
    /\ config = FullConfig
    /\ digest = NoDigest
    /\ page = NoPage
    /\ worker = NoWorker

NextEngine ==
    \/ ListFind(SeqReq)
    \/ \E id \in Ids : ListSave(SeqReq, id)
    \/ ListRespond(SeqReq)
    \/ CompleteFind(SeqReq, SeqId)
    \/ CompleteSave(SeqReq)
    \/ Return(SeqReq)
    \/ Tick

SpecEngine == InitEngine /\ [][NextEngine]_vars

\* ------------------------------------------------------------------------
\* Two GET /customers requests in flight at once on one stored customer,
\* between two midnights
\* ------------------------------------------------------------------------

\* the customers whose visit is around the clock's dates
RaceCustomers == {c \in EngineCustomers : c.nextVisit \in NearDates}

InitTwoLists ==
    /\ store \in {(SeqId :> Stored(SeqId, c)) : c \in RaceCustomers}
    /\ clock \in ClockStart..(ClockStart + MaxTicks)
    /\ req = [r \in Reqs |-> IdleReq]
    /\ lastPass = <<>>
    /\ completions = 0
    /\ before = store
    /\ session = TRUE
    /\ proc = "running"
    /\ config = FullConfig
    /\ digest = NoDigest
    /\ page = NoPage
    /\ worker = NoWorker

NextTwoLists ==
    \E r \in Reqs :
        \/ ListFind(r)
        \/ \E id \in Ids : ListSave(r, id)
        \/ ListRespond(r)
        \/ Return(r)

SpecTwoLists == InitTwoLists /\ [][NextTwoLists]_vars

\* ------------------------------------------------------------------------
\* Two POST /customers/:id/complete requests in flight at once on one stored
\* customer
\* ------------------------------------------------------------------------

InitTwoCompletes == InitTwoLists

NextTwoCompletes ==
    \E r \in Reqs :
        \/ CompleteFind(r, SeqId)
        \/ CompleteSave(r)
        \/ Return(r)

SpecTwoCompletes == InitTwoCompletes /\ [][NextTwoCompletes]_vars

\* ------------------------------------------------------------------------
\* One GET /customers or POST /customers/:id/complete in flight on one stored
\* customer while edits and a delete of that customer are served
\* ------------------------------------------------------------------------

\* the edits of the statuses
StatusPatches ==
    UNION {[{"paymentStatus"} -> PaymentStatuses],
           [{"workStatus"} -> WorkStatuses]}

\* a stored weekly customer with no payment recorded
InitRace ==
    /\ InitTwoLists
    /\ clock = ClockStart
    /\ store[SeqId].recurring = "Weekly"
    /\ store[SeqId].lastPayment = Null

NextRace ==
    \/ \E patch \in StatusPatches : Edit(SeqId, patch)
    \/ Delete(SeqId)
    \/ ListFind(SeqReq)
    \/ ListSave(SeqReq, SeqId)
    \/ ListRespond(SeqReq)
    \/ CompleteFind(SeqReq, SeqId)
    \/ CompleteSave(SeqReq)
    \/ Return(SeqReq)

SpecRace == InitRace /\ [][NextRace]_vars

\* ------------------------------------------------------------------------
\* GET /customers over two stored customers, one request at a time, with
\* crashes and midnights
\* ------------------------------------------------------------------------

\* every combination of the statuses on the days around the clock's dates
BatchCustomers ==
    [recurring : {"Weekly"}, paymentStatus : PaymentStatuses,
     workStatus : WorkStatuses,
     nextVisit : {getLocalYYYYMMDD(d) : d \in (ClockStart - 1)..(ClockStart + MaxTicks)},
     lastPayment : {Null}, email : {Address}]

InitBatch ==
    /\ store \in {[id \in Ids |-> Stored(id, c[id])] : c \in [Ids -> BatchCustomers]}
    /\ clock = ClockStart
    /\ req = [r \in Reqs |-> IdleReq]
    /\ lastPass = <<>>
    /\ completions = 0
    /\ before = store
    /\ session = TRUE
    /\ proc = "running"
    /\ config = FullConfig
    /\ digest = NoDigest
    /\ page = NoPage
    /\ worker = NoWorker

NextBatch ==
    \/ ListFind(SeqReq)
    \/ \E id \in Ids : ListSave(SeqReq, id)
    \/ ListRespond(SeqReq)
    \/ Return(SeqReq)
    \/ Crash
    \/ Tick

SpecBatch == InitBatch /\ [][NextBatch]_vars

\* ------------------------------------------------------------------------
\* The server from its start, behind the session check, with one customer
\* slot, one request at a time, and services that can fail
\* ------------------------------------------------------------------------

\* every service configured, or all but one
Configs ==
    {FullConfig} \cup {[FullConfig EXCEPT ![k] = FALSE] : k \in DOMAIN FullConfig}

InitHttp ==
    /\ store = <<>>
    /\ clock = ClockStart
    /\ req = [r \in Reqs |-> IdleReq]
    /\ lastPass = <<>>
    /\ completions = 0
    /\ before = store
    /\ session = FALSE
    /\ proc = "starting"
    /\ config \in Configs
    /\ digest = NoDigest
    /\ page = NoPage
    /\ worker = NoWorker

\* the process is up and the admin notification service is not running
Serving == proc = "running" /\ digest = NoDigest /\ page = NoPage

\* a request to a path under /api has passed isLoggedInApi
Api == Serving /\ isLoggedInApi

NextHttp ==
    \/ \E connectOk \in BOOLEAN : connectToDb(connectOk)
    \/ \E username \in Usernames, password \in Passwords :
          Serving /\ AllIdle /\ PostLogin(username, password)
    \/ Serving /\ AllIdle /\ GetLogout
    \/ Serving /\ AllIdle /\ GetRoot
    \/ PageReturn
    \/ Serving /\ ~isLoggedInApi /\ Unauthorized(SeqReq)
    \/ \E body \in HttpBodies, storeOk \in BOOLEAN :
          Api /\ PostCustomers(SeqReq, SeqId, body, storeOk)
    \/ \E id \in RequestIds, body \in HttpPatches, storeOk \in BOOLEAN :
          Api /\ PutCustomer(SeqReq, id, body, storeOk)
    \/ \E id \in RequestIds, storeOk \in BOOLEAN :
          Api /\ DeleteCustomer(SeqReq, id, storeOk)
    \/ \E id \in RequestIds, storeOk \in BOOLEAN, mailOk \in BOOLEAN :
          Api /\ PostRemind(SeqReq, id, storeOk, mailOk)
    \/ \E storeOk \in BOOLEAN, aiOk \in BOOLEAN :
          Api /\ GetAgendaSummary(SeqReq, storeOk, aiOk)
    \/ \E isArray \in BOOLEAN, ids \in ExportIds, storeOk \in BOOLEAN :
          Api /\ PostExportPdf(SeqReq, isArray, ids, storeOk)
    \/ Api /\ ListFind(SeqReq)
    \/ Api /\ ListFindRejects(SeqReq)
    \/ \E id \in RequestIds : Api /\ CompleteFind(SeqReq, id)
    \/ \E id \in RequestIds : Api /\ CompleteFindRejects(SeqReq, id)
    \/ \E id \in Ids : ListSave(SeqReq, id)
    \/ \E id \in Ids : SaveRejects(SeqReq, id)
    \/ ListRespond(SeqReq)
    \/ CompleteSave(SeqReq)
    \/ Return(SeqReq)
    \/ \E storeOk \in BOOLEAN, mailOk \in BOOLEAN :
          Serving /\ AllIdle /\ checkUpcomingVisitsAndNotifyAdmins(storeOk, mailOk)
    \/ DigestReturn

SpecHttp == InitHttp /\ [][NextHttp]_vars

\* ------------------------------------------------------------------------
\* Every operation of a logged-in session over two stored customers, one
\* request at a time
\* ------------------------------------------------------------------------

FrameCustomers ==
    [recurring : {"Weekly"}, paymentStatus : {"Pending", "Paid"},
     workStatus : {"Pending"}, nextVisit : {YMD(2025, 5, 14), YMD(2025, 5, 21)},
     lastPayment : {Null}, email : {Address}]

\* the body of the POST /customers requests
FrameBody ==
    [recurring |-> "Weekly", paymentStatus |-> "Pending", workStatus |-> "Pending",
     nextVisit |-> YMD(2025, 5, 21), lastPayment |-> Null, email |-> Address]

\* the body of the PUT /customers/:id requests
FramePatch == [paymentStatus |-> "Paid", _id |-> "c1"]

InitFrame ==
    /\ store \in {[id \in Ids |-> Stored(id, c[id])] : c \in [Ids -> FrameCustomers]}
    /\ clock = ClockStart
    /\ req = [r \in Reqs |-> IdleReq]
    /\ lastPass = <<>>
    /\ completions = 0
    /\ before = store
    /\ session = TRUE
    /\ proc = "running"
    /\ config = FullConfig
    /\ digest = NoDigest
    /\ page = NoPage
    /\ worker = NoWorker

NextFrame ==
    \/ \E id \in Ids : Api /\ PostCustomers(SeqReq, id, FrameBody, TRUE)
    \/ \E id \in Ids : Api /\ PutCustomer(SeqReq, id, FramePatch, TRUE)
    \/ \E id \in Ids : Api /\ DeleteCustomer(SeqReq, id, TRUE)
    \/ \E id \in Ids, mailOk \in BOOLEAN : Api /\ PostRemind(SeqReq, id, TRUE, mailOk)
    \/ \E aiOk \in BOOLEAN : Api /\ GetAgendaSummary(SeqReq, TRUE, aiOk)
    \/ \E ids \in ExportIds : Api /\ PostExportPdf(SeqReq, TRUE, ids, TRUE)
    \/ Api /\ ListFind(SeqReq)
    \/ \E id \in Ids : Api /\ CompleteFind(SeqReq, id)
    \/ \E id \in Ids : ListSave(SeqReq, id)
    \/ ListRespond(SeqReq)
    \/ CompleteSave(SeqReq)
    \/ Return(SeqReq)
    \/ \E mailOk \in BOOLEAN :
          Serving /\ AllIdle /\ checkUpcomingVisitsAndNotifyAdmins(TRUE, mailOk)
    \/ DigestReturn

SpecFrame == InitFrame /\ [][NextFrame]_vars

\* ------------------------------------------------------------------------
\* The admin notification service over two stored customers, at the ends of
\* months and years, under every configuration of the mail service
\* ------------------------------------------------------------------------

\* 20 May 2025, 30 January 2025, 27 February 2024 and 30 December 2025
DigestClocks ==
    {ClockStart, NewDate(2025, 0, 30), NewDate(2024, 1, 27), NewDate(2025, 11, 30)}

\* the customers with a visit from the day before day t to four days after
DigestCustomers(t) ==
    [recurring : {"Weekly"}, paymentStatus : {"Pending"},
     workStatus : WorkStatuses,
     nextVisit : {getLocalYYYYMMDD(d) : d \in (t - 1)..(t + MaxTicks + 3)},
     lastPayment : {Null}, email : {Address}]

InitDigest ==
    /\ clock \in DigestClocks
    /\ store \in {[id \in Ids |-> Stored(id, c[id])] :
                     c \in [Ids -> DigestCustomers(clock)]}
    /\ req = [r \in Reqs |-> IdleReq]
    /\ lastPass = <<>>
    /\ completions = 0
    /\ before = store
    /\ session = FALSE
    /\ proc = "running"
    /\ config \in {c \in Configs : c.mongo}
    /\ digest = NoDigest
    /\ page = NoPage
    /\ worker = NoWorker

\* midnight passes, at any date
Midnight ==
    /\ \E t \in DigestClocks : clock < t + MaxTicks /\ clock >= t
    /\ clock' = clock + 1
    /\ UNCHANGED <<store, req, lastPass, completions,
                 before, session, proc, config, digest, page, worker>>

NextDigest ==
    \/ \E storeOk \in BOOLEAN, mailOk \in BOOLEAN :
          Serving /\ AllIdle /\ checkUpcomingVisitsAndNotifyAdmins(storeOk, mailOk)
    \/ DigestReturn
    \/ Midnight

SpecDigest == InitDigest /\ [][NextDigest]_vars

\* ------------------------------------------------------------------------
\* The service worker: install, activate and the fetch handler
\* ------------------------------------------------------------------------

STATIC_CACHE == "static-v3"

DYNAMIC_CACHE == "dynamic-v3"

\* the paths "/", "/index.html", "/offline.html" and "/api/customers"
Root == <<47>>

IndexHtml == <<47, 105, 110, 100, 101, 120, 46, 104, 116, 109, 108>>

OfflineHtml == <<47, 111, 102, 102, 108, 105, 110, 101, 46, 104, 116, 109, 108>>

ApiCustomers ==
    <<47, 97, 112, 105, 47, 99, 117, 115, 116, 111, 109, 101, 114, 115>>

\* the same-origin entries of STATIC_ASSETS
STATIC_ASSETS == {Root, IndexHtml}

\* the text "/api/"
ApiPrefix == <<47, 97, 112, 105, 47>>

\* String.prototype.startsWith
startsWith(text, prefix) ==
    /\ Len(text) >= Len(prefix)
    /\ SubSeq(text, 1, Len(prefix)) = prefix

\* the requests the page makes
FetchPaths == {Root, OfflineHtml, ApiCustomers}

Methods == {"GET", "POST"}

\* the statuses of the server's responses
NetworkStatuses == {200, 404}

\* caches left by earlier versions of the worker, and a dynamic cache of
\* this version
OldCacheNames == {"static-v2", "ajk-crm-v3", DYNAMIC_CACHE}

\* the server's variables, which the worker does not touch
server ==
    <<store, clock, req, lastPass, completions, before, session, proc, config,
      digest, page>>

\* caches.open(name), which creates the cache when there is none
CacheOpen(cs, name) ==
    [n \in DOMAIN cs \cup {name} |-> IF n \in DOMAIN cs THEN cs[n] ELSE <<>>]

\* caches.open(name), then cache.put of a response with this status
CachePutEntry(cs, name, path, status) ==
    [n \in DOMAIN cs \cup {name} |->
        IF n = name
        THEN LET old == IF n \in DOMAIN cs THEN cs[n] ELSE <<>>
             IN  [q \in DOMAIN old \cup {path} |->
                     IF q = path THEN status ELSE old[q]]
        ELSE cs[n]]

\* caches.match: the statuses of the entries of any cache that match a
\* request; a request with another method than GET matches none
Matches(cs, path, method) ==
    IF method # "GET" THEN {}
    ELSE {cs[n][path] : n \in {m \in DOMAIN cs : path \in DOMAIN cs[m]}}

\* install: caches.open(STATIC_CACHE), cache.addAll(STATIC_ASSETS), which
\* stores all the responses or none, then skipWaiting
Install(addOk) ==
    /\ worker.state = "parsed"
    /\ worker' =
          [worker EXCEPT
              !.state = IF addOk THEN "installed" ELSE "redundant",
              !.caches =
                  [n \in DOMAIN worker.caches \cup {STATIC_CACHE} |->
                      IF n = STATIC_CACHE
                      THEN IF addOk THEN [q \in STATIC_ASSETS |-> 200] ELSE <<>>
                      ELSE worker.caches[n]]]
    /\ UNCHANGED server

\* the activate handler deletes the caches with this key and keeps the rest,
\* keeping the cache named CACHE_NAME as well
ObsoleteKeepingCacheName(key) ==
    key # STATIC_CACHE /\ key # DYNAMIC_CACHE /\ key # "ajk-crm-v3"

\* the activate handler deletes the caches with this key and keeps the rest
Obsolete(key) == key # STATIC_CACHE /\ key # DYNAMIC_CACHE

\* activate: caches.keys() and the caches.delete calls issued by keys.map
Activate ==
    /\ worker.state = "installed"
    /\ worker' =
          [worker EXCEPT
              !.state = "activating",
              !.keys = DOMAIN worker.caches,
              !.deleting = {key \in DOMAIN worker.caches : Obsolete(key)}]
    /\ UNCHANGED server

\* one caches.delete of the activate handler completes
CacheDelete(key) ==
    /\ worker.state = "activating"
    /\ key \in worker.deleting
    /\ worker' =
          [worker EXCEPT
              !.deleting = worker.deleting \ {key},
              !.caches = [n \in DOMAIN worker.caches \ {key} |->
                            worker.caches[n]]]
    /\ UNCHANGED server

\* Promise.all has resolved: self.clients.claim()
ClientsClaim ==
    /\ worker.state = "activating"
    /\ worker.deleting = {}
    /\ worker' = [worker EXCEPT !.state = "activated", !.claimed = TRUE]
    /\ UNCHANGED server

\* the fetch handler's first step for a request: fetch(request) for a path
\* under /api/, caches.match(request) for any other
FetchEvent(path, method, html) ==
    /\ worker.state = "activated"
    /\ worker.event = NoEvent
    /\ LET request == [NoEvent EXCEPT !.path = path, !.method = method,
                                      !.html = html]
           cached == Matches(worker.caches, path, method)
       IN  IF startsWith(path, ApiPrefix) \/ cached = {}
           THEN worker' = [worker EXCEPT
                              !.event = [request EXCEPT !.stage = "network",
                                                        !.tried = TRUE]]
           ELSE \E status \in cached :
                   worker' = [worker EXCEPT
                                 !.event = [request EXCEPT
                                               !.stage = "answered",
                                               !.source = "cache",
                                               !.status = status]]
    /\ UNCHANGED server

\* the fetch handler caching every response of the network
NetworkRespondsCacheAll(status) ==
    /\ worker.event.stage = "network"
    /\ worker' =
          [worker EXCEPT
              !.event = [worker.event EXCEPT
                            !.stage = "answered",
                            !.source = "network",
                            !.status = status,
                            !.put = IF startsWith(worker.event.path, ApiPrefix)
                                    THEN DYNAMIC_CACHE
                                    ELSE STATIC_CACHE]]
    /\ UNCHANGED server

\* fetch(request) resolves: the response is returned, and its clone is put
\* in the cache of the branch when its status is 200
NetworkResponds(status) ==
    /\ worker.event.stage = "network"
    /\ worker' =
          [worker EXCEPT
              !.event = [worker.event EXCEPT
                            !.stage = "answered",
                            !.source = "network",
                            !.status = status,
                            !.put = IF status # 200 THEN "none"
                                    ELSE IF startsWith(worker.event.path,
                                                       ApiPrefix)
                                    THEN DYNAMIC_CACHE
                                    ELSE STATIC_CACHE]]
    /\ UNCHANGED server

\* fetch(request) rejects: the catch of the /api/ branch looks in the caches,
\* then for /offline.html or builds the 408 response; the other branch has
\* no catch, and the page gets a network error; so it does when respondWith
\* is given the undefined of a caches.match that found nothing
NetworkFails ==
    /\ worker.event.stage = "network"
    /\ LET event == [worker.event EXCEPT !.stage = "answered",
                                         !.failed = TRUE]
           cached == Matches(worker.caches, event.path, event.method)
           offline == Matches(worker.caches, OfflineHtml, "GET")
       IN  IF ~startsWith(event.path, ApiPrefix)
           THEN worker' = [worker EXCEPT
                              !.event = [event EXCEPT !.source = "error"]]
           ELSE IF cached # {}
           THEN \E status \in cached :
                   worker' = [worker EXCEPT
                                 !.event = [event EXCEPT !.source = "cache",
                                                         !.status = status]]
           ELSE IF ~event.html
           THEN worker' = [worker EXCEPT
                              !.event = [event EXCEPT !.source = "synthetic",
                                                      !.status = 408]]
           ELSE IF offline # {}
           THEN \E status \in offline :
                   worker' = [worker EXCEPT
                                 !.event = [event EXCEPT !.source = "offline",
                                                         !.status = status]]
           ELSE worker' = [worker EXCEPT
                              !.event = [event EXCEPT !.source = "error"]]
    /\ UNCHANGED server

\* the caches.open and cache.put started for the clone complete; cache.put
\* rejects for a request with another method than GET
CachePut ==
    /\ worker.event.put # "none"
    /\ worker' =
          [worker EXCEPT
              !.event = [worker.event EXCEPT !.put = "none"],
              !.caches =
                  IF worker.event.method = "GET"
                  THEN CachePutEntry(worker.caches, worker.event.put,
                                     worker.event.path, worker.event.status)
                  ELSE CacheOpen(worker.caches, worker.event.put)]
    /\ UNCHANGED server

\* the page has its answer and the handler's promises have settled
FetchReturn ==
    /\ worker.event.stage = "answered"
    /\ worker.event.put = "none"
    /\ worker' = [worker EXCEPT !.event = NoEvent]
    /\ UNCHANGED server

InitWorker ==
    /\ store = <<>>
    /\ clock = ClockStart
    /\ req = [r \in Reqs |-> IdleReq]
    /\ lastPass = <<>>
    /\ completions = 0
    /\ before = store
    /\ session = FALSE
    /\ proc = "running"
    /\ config = FullConfig
    /\ digest = NoDigest
    /\ page = NoPage
    /\ worker \in {[NoWorker EXCEPT !.caches = [n \in names |-> <<>>]] :
                      names \in SUBSET OldCacheNames}

NextWorker ==
    \/ \E addOk \in BOOLEAN : Install(addOk)
    \/ Activate
    \/ \E key \in OldCacheNames : CacheDelete(key)
    \/ ClientsClaim
    \/ \E path \in FetchPaths, method \in Methods, html \in BOOLEAN :
          FetchEvent(path, method, html)
    \/ \E status \in NetworkStatuses : NetworkResponds(status)
    \/ NetworkFails
    \/ CachePut
    \/ FetchReturn

SpecWorker == InitWorker /\ [][NextWorker]_vars

\* ------------------------------------------------------------------------
\* The calendar, counted day by day, for the statements about dates
\* ------------------------------------------------------------------------

LeapYear(y) == y % 4 = 0 /\ (y % 100 # 0 \/ y % 400 = 0)

\* the length of month m (1..12) of year y
MonthLength(y, m) ==
    CASE m = 2 -> IF LeapYear(y) THEN 29 ELSE 28
      [] m \in {4, 6, 9, 11} -> 30
      [] OTHER -> 31

\* the calendar date written by a text "YYYY-MM-DD"
DateOf(text) ==
    [y |-> 1000 * (text[1] - Zero) + 100 * (text[2] - Zero)
             + 10 * (text[3] - Zero) + (text[4] - Zero),
     m |-> 10 * (text[6] - Zero) + (text[7] - Zero),
     d |-> 10 * (text[9] - Zero) + (text[10] - Zero)]

TextOf(date) == YMD(date.y, date.m, date.d)

DayAfter(date) ==
    IF date.d < MonthLength(date.y, date.m) THEN [date EXCEPT !.d = @ + 1]
    ELSE IF date.m < 12 THEN [y |-> date.y, m |-> date.m + 1, d |-> 1]
    ELSE [y |-> date.y + 1, m |-> 1, d |-> 1]

RECURSIVE DaysLater(_, _)
DaysLater(date, n) == IF n = 0 THEN date ELSE DaysLater(DayAfter(date), n - 1)

\* one calendar month later, the day clamped to the length of that month
MonthLaterClamped(date) ==
    LET y2 == IF date.m = 12 THEN date.y + 1 ELSE date.y
        m2 == IF date.m = 12 THEN 1 ELSE date.m + 1
    IN  [y |-> y2, m |-> m2,
         d |-> IF date.d > MonthLength(y2, m2) THEN MonthLength(y2, m2) ELSE date.d]

\* one calendar month later, the days beyond the length of that month
\* counted into the month after it
MonthLaterOverflowing(date) ==
    LET c == MonthLaterClamped(date)
        over == date.d - MonthLength(c.y, c.m)
    IN  IF over <= 0 THEN c
        ELSE [y |-> IF c.m = 12 THEN c.y + 1 ELSE c.y,
              m |-> IF c.m = 12 THEN 1 ELSE c.m + 1,
              d |-> over]

\* the date k recurrence intervals after a date
RECURSIVE IntervalsLater(_, _, _)
IntervalsLater(date, recurring, k) ==
    IF k = 0 \/ recurring = "None" THEN date
    ELSE IntervalsLater(CASE recurring = "Weekly" -> DaysLater(date, 7)
                          [] recurring = "Bi-weekly" -> DaysLater(date, 14)
                          [] recurring = "Monthly" -> MonthLaterOverflowing(date),
                        recurring, k - 1)

\* the conditions of the two rules of the status repair
OverdueCondition(customer, today) ==
    customer.paymentStatus = "Pending" /\ StrLess(customer.nextVisit, today)

ResetCondition(customer, today) ==
    /\ customer.workStatus = "Completed"
    /\ customer.paymentStatus = "Paid"
    /\ StrLeq(customer.nextVisit, today)

\* the step is request r's find and status repair of GET /customers
ListFindStep(r) == req[r].kind = "idle" /\ req'[r].kind = "list"

\* the step is the save of customer id by request r's GET /customers
ListSaveStep(r, id) ==
    req[r].kind = "list" /\ id \in req[r].pending /\ id \notin req'[r].pending

\* the step is the successful save of request r's complete-job
CompleteSaveStep(r) ==
    req[r].kind = "complete" /\ req[r].status = 0 /\ req'[r].status = 200

\* request r has completed a job and answered 200
Completed(r) == req[r].kind = "complete" /\ req[r].status = 200

\* request r has listed the customers and answered 200
Listed(r) == req[r].kind = "list" /\ req[r].status = 200

\* ------------------------------------------------------------------------
\* C1
\* ------------------------------------------------------------------------

\* C1: a list-read sets paymentStatus to Overdue when it reads Pending with
\* nextVisit < today (comparison of the date strings) and leaves
\* paymentStatus as it was otherwise, in the returned record and, once its
\* save has completed, in the store.
C1_AutoOverdue ==
    [][\A r \in Reqs :
        /\ ListFindStep(r) =>
             \A id \in DOMAIN store :
                req'[r].docs[id].paymentStatus =
                    IF OverdueCondition(store[id], req'[r].today)
                    THEN "Overdue" ELSE store[id].paymentStatus
        /\ \A id \in DOMAIN store :
             ListSaveStep(r, id) =>
                store'[id].paymentStatus = req[r].docs[id].paymentStatus]_vars

C1_Witness ==
    \E r \in Reqs : \E id \in DOMAIN store :
        /\ Listed(r)
        /\ "overdue" \in req[r].applied[id]
        /\ store[id].paymentStatus = "Overdue"
        /\ StrLess(store[id].nextVisit, req[r].today)

\* ------------------------------------------------------------------------
\* C2
\* ------------------------------------------------------------------------

\* C2: a list-read sets workStatus to Pending exactly when it reads
\* workStatus Completed, paymentStatus Paid and nextVisit <= today; for
\* every other combination workStatus is left as it was.
C2_AutoReset ==
    [][\A r \in Reqs :
        /\ ListFindStep(r) =>
             \A id \in DOMAIN store :
                req'[r].docs[id].workStatus =
                    IF ResetCondition(store[id], req'[r].today)
                    THEN "Pending" ELSE store[id].workStatus
        /\ \A id \in DOMAIN store :
             ListSaveStep(r, id) =>
                store'[id].workStatus = req[r].docs[id].workStatus]_vars

C2_Witness ==
    \E r \in Reqs : \E id \in DOMAIN store :
        /\ Listed(r)
        /\ "reset" \in req[r].applied[id]
        /\ store[id].workStatus = "Pending"
        /\ store[id].paymentStatus = "Paid"
        /\ store[id].nextVisit = req[r].today

\* ------------------------------------------------------------------------
\* C3
\* ------------------------------------------------------------------------

\* C3: complete-job on an existing customer, whatever its statuses, stores
\* and returns workStatus Completed, paymentStatus Pending and lastPayment
\* null; when recurring is None the stored nextVisit is unchanged.
C3_AdvanceStatuses ==
    [][\A r \in Reqs :
        CompleteSaveStep(r) =>
            LET id == req[r].id
            IN  /\ store'[id].workStatus = "Completed"
                /\ store'[id].paymentStatus = "Pending"
                /\ store'[id].lastPayment = Null
                /\ store[id].recurring = "None" =>
                       store'[id].nextVisit = store[id].nextVisit
                /\ req'[r].docs[id] = store'[id]]_vars

C3_Witness ==
    \E r \in Reqs :
        /\ Completed(r)
        /\ store[req[r].id].recurring = "None"
        /\ {"workStatus", "paymentStatus", "lastPayment"}
               \subseteq DOMAIN req[r].delta[req[r].id]
        /\ store[req[r].id].lastPayment = Null

\* ------------------------------------------------------------------------
\* C4
\* ------------------------------------------------------------------------

\* C4: complete-job moves the nextVisit of a Weekly customer 7 calendar days
\* and of a Bi-weekly customer 14 calendar days after the stored nextVisit,
\* whatever the day on which the job is completed: 2025-01-01 Weekly gives
\* 2025-01-08 and 2025-06-01 Bi-weekly gives 2025-06-15.
C4_WeeklyBiweekly ==
    [][\A r \in Reqs :
        CompleteSaveStep(r) =>
            LET old == store[req[r].id]
                new == store'[req[r].id]
            IN  /\ old.recurring = "Weekly" =>
                     new.nextVisit = TextOf(DaysLater(DateOf(old.nextVisit), 7))
                /\ old.recurring = "Bi-weekly" =>
                     new.nextVisit = TextOf(DaysLater(DateOf(old.nextVisit), 14))
                /\ (old.recurring = "Weekly" /\ old.nextVisit = YMD(2025, 1, 1)) =>
                     new.nextVisit = YMD(2025, 1, 8)
                /\ (old.recurring = "Bi-weekly" /\ old.nextVisit = YMD(2025, 6, 1)) =>
                     new.nextVisit = YMD(2025, 6, 15)]_vars

C4_Witness ==
    \E r \in Reqs :
        /\ Completed(r)
        /\ clock > ClockStart
        /\ store[req[r].id].recurring = "Bi-weekly"
        /\ "nextVisit" \in DOMAIN req[r].delta[req[r].id]
        /\ store[req[r].id].nextVisit = YMD(2025, 6, 15)

\* ------------------------------------------------------------------------
\* C5
\* ------------------------------------------------------------------------

\* C5: complete-job moves the nextVisit of a Monthly customer one calendar
\* month later, keeping the day of the month unless that month is shorter,
\* and then giving its last day: January 31 gives February 28, or
\* February 29 in a leap year, never a date in March.
C5_MonthlyClamped ==
    [][\A r \in Reqs :
        CompleteSaveStep(r) =>
            LET old == store[req[r].id]
                new == store'[req[r].id]
            IN  old.recurring = "Monthly" =>
                    new.nextVisit = TextOf(MonthLaterClamped(DateOf(old.nextVisit)))]_vars

\* ------------------------------------------------------------------------
\* C6
\* ------------------------------------------------------------------------

\* C6: the status repair is idempotent: repairing the record a list-read
\* returns once more, with the same today, gives the same record and asks
\* for no save.
C6_Idempotent ==
    [][\A r \in Reqs :
        ListFindStep(r) =>
            \A id \in DOMAIN store :
                LET once == req'[r].docs[id]
                    twice == Reconcile(once, req'[r].today)
                IN  twice.doc = once /\ ~twice.needsSave /\ twice.applied = {}]_vars

C6_Witness ==
    \E r \in Reqs : \E id \in DOMAIN store :
        /\ Listed(r)
        /\ req[r].applied[id] = {"reset"}
        /\ store[id] = req[r].docs[id]
        /\ StrLess(store[id].nextVisit, req[r].today)

\* ------------------------------------------------------------------------
\* C7
\* ------------------------------------------------------------------------

\* C7: a list-read issues a save for a customer exactly when one of the two
\* rules changed it; a customer for which neither condition holds is
\* returned as stored and gets no save, and a list-read changes the store
\* only through those saves.
C7_SaveOnlyChanged ==
    [][\A r \in Reqs :
        /\ ListFindStep(r) =>
             \A id \in DOMAIN store :
                /\ id \in req'[r].pending <=> req'[r].docs[id] # store[id]
                /\ (~OverdueCondition(store[id], req'[r].today)
                    /\ ~ResetCondition(store[id], req'[r].today)) =>
                       (req'[r].docs[id] = store[id] /\ id \notin req'[r].pending)
        /\ req[r].kind = "list" =>
             \A id \in DOMAIN store :
                store'[id] # store[id] => id \in req[r].pending]_vars

C7_Witness ==
    \E r \in Reqs : \E id \in DOMAIN store :
        /\ req[r].kind = "list"
        /\ req[r].status = 0
        /\ req[r].pending = {}
        /\ req[r].applied[id] = {}
        /\ store[id].paymentStatus = "Pending"
        /\ store[id].nextVisit = req[r].today

\* ------------------------------------------------------------------------
\* C8
\* ------------------------------------------------------------------------

\* C8, as claimed: there is a customer record, stored or not, for which one
\* pass of the status repair on the server's current day applies both the
\* auto-overdue and the auto-reset rule.
C8_BothRulesFire ==
    \E c \in EngineCustomers \cup {store[i] : i \in DOMAIN store} :
        Reconcile(c, Today).applied = {"overdue", "reset"}

\* C8, amended: one pass of the status repair applies at most one of the
\* two rules to a record; after auto-overdue the paymentStatus is Overdue,
\* so the Paid that auto-reset requires cannot hold.
C8_AtMostOneRule ==
    \A r \in Reqs : \A id \in DOMAIN req[r].applied :
        Cardinality(req[r].applied[id]) <= 1

C8_Witness ==
    \E r \in Reqs : \E id \in DOMAIN store :
        /\ Listed(r)
        /\ req[r].applied[id] = {"overdue"}
        /\ store[id].workStatus = "Completed"
        /\ store[id].paymentStatus = "Overdue"

\* ------------------------------------------------------------------------
\* C9
\* ------------------------------------------------------------------------

\* C9, as claimed: every stored customer with paymentStatus Overdue has
\* nextVisit strictly before the today of the last list-read, and a
\* paymentStatus becomes Overdue only from Pending.
C9_OverdueInvariant ==
    [][\A id \in DOMAIN store' :
        store'[id].paymentStatus = "Overdue" =>
            /\ lastPass' # <<>>
            /\ StrLess(store'[id].nextVisit, lastPass')
            /\ (id \notin DOMAIN store \/ store[id].paymentStatus # "Overdue") =>
                   (id \in DOMAIN store /\ store[id].paymentStatus = "Pending")]_vars

\* C9, amended: a stored paymentStatus becomes Overdue only by a create or
\* a manual edit, or by the save of a list-read whose status repair set it;
\* the status repair sets Overdue only on a record it read with
\* paymentStatus Pending and nextVisit strictly before that pass's today,
\* and complete-job never sets Overdue.
C9_OverdueOrigin ==
    [][/\ \A r \in Reqs :
            ListFindStep(r) =>
                \A id \in DOMAIN store :
                    (req'[r].docs[id].paymentStatus = "Overdue"
                     /\ store[id].paymentStatus # "Overdue") =>
                        /\ store[id].paymentStatus = "Pending"
                        /\ StrLess(store[id].nextVisit, lastPass')
                        /\ lastPass' = req'[r].today
       /\ \A id \in DOMAIN store' :
            (store'[id].paymentStatus = "Overdue"
             /\ (id \notin DOMAIN store \/ store[id].paymentStatus # "Overdue")) =>
                \/ id \notin DOMAIN store /\ (\E body \in NewCustomers : store'[id] = Stored(id, body))
                \/ /\ id \in DOMAIN store
                   /\ req' = req
                   /\ \E patch \in Patches :
                         store'[id] = ApplyDelta(store[id], patch)
                \/ \E r \in Reqs :
                      /\ ListSaveStep(r, id)
                      /\ "overdue" \in req[r].applied[id]
                      /\ req[r].docs[id].paymentStatus = "Overdue"]_vars

C9_Witness ==
    \E r \in Reqs : \E id \in DOMAIN store :
        /\ Listed(r)
        /\ "overdue" \in req[r].applied[id]
        /\ store[id].paymentStatus = "Overdue"
        /\ lastPass = req[r].today
        /\ clock > ClockStart

\* ------------------------------------------------------------------------
\* C10
\* ------------------------------------------------------------------------

\* C10: no step of a list-read or of a complete-job changes the nextVisit
\* of a customer whose recurring is None, so that after any sequence of
\* such requests the customer has the nextVisit it had before.
C10_NoneNeverAdvanced ==
    [][\A id \in DOMAIN store :
        store[id].recurring = "None" =>
            /\ id \in DOMAIN store'
            /\ store'[id].recurring = "None"
            /\ store'[id].nextVisit = store[id].nextVisit]_vars

C10_Witness ==
    \E r \in Reqs :
        /\ Completed(r)
        /\ store[req[r].id].recurring = "None"
        /\ store[req[r].id].workStatus = "Completed"
        /\ "workStatus" \in DOMAIN req[r].delta[req[r].id]
        /\ "nextVisit" \notin DOMAIN req[r].delta[req[r].id]
        /\ clock > ClockStart

\* C11: while two list-reads run at once with the same today, the stored
\* record is the record as it was before them or the result of one Reconcile
\* of it, and once a list-read has answered it is the result of one Reconcile
C11_ConcurrentListReads ==
    \A id \in DOMAIN store :
        LET once == Reconcile(before[id], Today).doc
        IN  /\ store[id] \in {before[id], once}
            /\ (\E r \in Reqs : Listed(r)) => store[id] = once

\* both requests read the record before either wrote, both wrote, and both
\* have answered
C11_Witness ==
    /\ \A r \in Reqs : Listed(r) /\ req[r].delta[SeqId] # <<>>
    /\ store[SeqId] # before[SeqId]

\* C12: the stored nextVisit is the nextVisit from before the complete-job
\* requests moved on by whole recurrence intervals, at most one per request
\* received and at least one once a request has answered 200; two requests
\* in flight at once can move it on by two intervals (the witness)
C12_AdvancePerRequest ==
    \A id \in DOMAIN store :
        \E k \in 0..completions :
            /\ store[id].nextVisit =
                   TextOf(IntervalsLater(DateOf(before[id].nextVisit),
                                         before[id].recurring, k))
            /\ (\E r \in Reqs : Completed(r)) => k >= 1

\* both requests are in flight and have answered 200, and the visit of a
\* recurring customer is two intervals after the visit from before them
C12_Witness ==
    /\ \A r \in Reqs : Completed(r) /\ req[r].id = SeqId
    /\ before[SeqId].recurring # "None"
    /\ store[SeqId].nextVisit =
           TextOf(IntervalsLater(DateOf(before[SeqId].nextVisit),
                                 before[SeqId].recurring, 2))

\* C13: whatever earlier list-reads wrote before they stopped, once a
\* list-read has answered 200 every stored record is a fixed point of
\* Reconcile for that request's today
C13_SelfHealing ==
    \A r \in Reqs :
        Listed(r) =>
            \A id \in DOMAIN store :
                /\ Reconcile(store[id], req[r].today).doc = store[id]
                /\ ~Reconcile(store[id], req[r].today).needsSave

\* an earlier list-read stored the repair of c1 and stopped before storing
\* the repair c2 needed on every day of the clock; this list-read stored
\* the repair of c2 and has answered
C13_Witness ==
    /\ Listed(SeqReq)
    /\ before["c1"].paymentStatus = "Pending"
    /\ store["c1"].paymentStatus = "Overdue"
    /\ req[SeqReq].applied["c1"] = {}
    /\ StrLess(before["c2"].nextVisit, getLocalYYYYMMDD(ClockStart))
    /\ before["c2"].paymentStatus = "Pending"
    /\ req[SeqReq].applied["c2"] = {"overdue"}
    /\ store["c2"].paymentStatus = "Overdue"

\* C14: no record of the response of a successful list-read is Pending in
\* payment with its visit before the request's today, and none is Completed
\* and Paid with its visit on or before it; the one today of the request is
\* the today of every record
C14_ResponseReconciled ==
    \A r \in Reqs :
        Listed(r) =>
            /\ DOMAIN req[r].docs = DOMAIN store
            /\ \A id \in DOMAIN req[r].docs :
                   /\ ~OverdueCondition(req[r].docs[id], req[r].today)
                   /\ ~ResetCondition(req[r].docs[id], req[r].today)

\* the response holds two records, each repaired by a different rule
C14_Witness ==
    /\ Listed(SeqReq)
    /\ req[SeqReq].applied["c1"] = {"overdue"}
    /\ req[SeqReq].applied["c2"] = {"reset"}
    /\ req[SeqReq].docs["c1"].paymentStatus = "Overdue"
    /\ req[SeqReq].docs["c2"].workStatus = "Pending"

\* C15: a request under /api that arrives without a logged-in session is
\* answered 401 by the session check alone: no handler runs for it, no stored
\* customer changes, its response carries no data and it sends no email
C15_UnauthorizedApi ==
    [][\A r \in Reqs :
          (req[r].kind = "idle" /\ req'[r].kind # "idle" /\ ~session) =>
              /\ req'[r].kind = "denied"
              /\ req'[r].status = 401
              /\ req'[r].docs = <<>>
              /\ req'[r].pending = {}
              /\ ~req'[r].db
              /\ req'[r].mails = 0
              /\ store' = store]_vars

\* a request has been answered 401 while customers are stored
C15_Witness ==
    /\ req[SeqReq].kind = "denied"
    /\ req[SeqReq].status = 401
    /\ ~session
    /\ store # <<>>

\* the step is the arrival of a PUT, DELETE or complete-job request whose
\* store operation, if it made one, did not reject
TargetedStep(r) ==
    /\ req[r].kind = "idle"
    /\ req'[r].kind \in {"edit", "delete", "complete"}
    /\ ~req'[r].failed

Arrival(r, kinds) == req[r].kind = "idle" /\ req'[r].kind \in kinds

\* C17: the store changes only in a create, an edit, a delete, a save of a
\* list-read or the save of a complete-job; remind, agenda-summary,
\* PDF-export and the admin notification service leave it as it is; a delete
\* removes its target and leaves every other customer as it is
C17_Frame ==
    [][/\ \A r \in Reqs :
             Arrival(r, {"remind", "agenda", "export"}) => store' = store
       /\ digest' # digest => store' = store
       /\ \A r \in Reqs :
             Arrival(r, {"delete"}) =>
                 IF req'[r].status = 204
                 THEN /\ req'[r].id \in DOMAIN store
                      /\ DOMAIN store' = DOMAIN store \ {req'[r].id}
                      /\ \A i \in DOMAIN store' : store'[i] = store[i]
                 ELSE store' = store
       /\ store' # store =>
             \E r \in Reqs :
                 \/ Arrival(r, {"create", "edit", "delete"})
                 \/ \E id \in Ids : ListSaveStep(r, id)
                 \/ CompleteSaveStep(r)]_vars

\* a delete of c1 has been answered 204 and c2 is stored as it was
C17_Witness ==
    /\ req[SeqReq].kind = "delete"
    /\ req[SeqReq].id = "c1"
    /\ req[SeqReq].status = 204
    /\ DOMAIN store = {"c2"}
    /\ store["c2"] = before["c2"]

\* the text is a zero-padded "YYYY-MM-DD" that names a day of the calendar
ValidDateText(text) ==
    /\ DOMAIN text = 1..10
    /\ \A i \in {1, 2, 3, 4, 6, 7, 9, 10} : IsDigit(text[i])
    /\ text[5] = Dash /\ text[8] = Dash
    /\ DateOf(text).m \in 1..12
    /\ DateOf(text).d \in 1..MonthLength(DateOf(text).y, DateOf(text).m)

\* C18: the nextVisit of every stored customer is a zero-padded YYYY-MM-DD
\* text that names a valid date
C18_ValidNextVisit ==
    \A id \in DOMAIN store : ValidDateText(store[id].nextVisit)

\* C19: the identifier of a stored customer is the one it was created
\* with, and the record a response carries for it has that identifier: no
\* edit, whatever id or _id its body carries, no list-read and no
\* complete-job changes it
C19_IdentityImmutable ==
    /\ \A id \in DOMAIN store : store[id]._id = id
    /\ \A r \in Reqs : \A id \in DOMAIN req[r].docs : req[r].docs[id]._id = id

\* an edit whose body carries the _id of another customer has been applied:
\* no complete-job was received, and only that body sets Completed
C19_Witness ==
    /\ req[SeqReq].kind = "edit"
    /\ req[SeqReq].status = 200
    /\ completions = 0
    /\ store["c1"].workStatus = "Completed"
    /\ store["c1"]._id = "c1"

\* C20: a request whose store, mail or AI call rejects is answered with a
\* failure status; once the process runs it keeps running, through failed
\* requests and failed runs of the admin notification service; it exits
\* only from its startup
C20_FailuresContained ==
    [][/\ proc' = "exited" => proc = "starting"
       /\ proc = "running" => proc' = "running"
       /\ \A r \in Reqs :
             (req'[r].failed /\ req'[r].status # 0) => req'[r].status \in {400, 500}
       /\ \A r \in Reqs :
             (req[r].kind = "idle" /\ req'[r].kind \in {"remind", "agenda"}) =>
                 req'[r].status # 0]_vars

\* a reminder to a stored customer with an email address has been answered
\* 500 because its findById or its sendMail rejected, and the process runs
C20_Witness ==
    /\ req[SeqReq].kind = "remind"
    /\ req[SeqReq].failed
    /\ req[SeqReq].status = 500
    /\ req[SeqReq].id \in DOMAIN store
    /\ store[req[SeqReq].id].email # Null
    /\ proc = "running"

\* the customers with workStatus Pending whose nextVisit is the text of the
\* day after today or of the day after that
VisitsInTwoDays ==
    {i \in DOMAIN store :
        /\ store[i].workStatus = "Pending"
        /\ store[i].nextVisit \in {TextOf(DaysLater(DateOf(Today), 1)),
                                   TextOf(DaysLater(DateOf(Today), 2))}}

\* C21: a run of the admin notification service sends no email when the
\* recipients, the sender or the transporter are not configured or when no
\* customer has workStatus Pending and a visit tomorrow or the day after;
\* otherwise it composes one email that lists exactly those customers, and
\* that is the one email sent unless the store or the mail service rejects
C21_Digest ==
    [][(digest = NoDigest /\ digest' # NoDigest) =>
          /\ digest'.mails \in {0, 1}
          /\ (~config.admins \/ ~config.sender \/ ~config.transporter) =>
                digest'.outcome = "skipped" /\ digest'.mails = 0
          /\ (config.admins /\ config.sender /\ config.transporter) =>
                /\ digest'.outcome \in {"empty", "sent", "failed"}
                /\ digest'.outcome = "empty" =>
                      (VisitsInTwoDays = {} /\ digest'.mails = 0
                       /\ digest'.listed = {})
                /\ digest'.outcome # "failed" =>
                      (VisitsInTwoDays = {} <=> digest'.outcome = "empty")
                /\ digest'.outcome = "sent" =>
                      digest'.mails = 1 /\ digest'.listed = VisitsInTwoDays
                /\ digest'.outcome = "failed" =>
                      digest'.mails = 0 /\ digest'.listed \in {{}, VisitsInTwoDays}
                /\ VisitsInTwoDays = {} => digest'.outcome # "sent"]_vars

\* one email listing both customers has been sent, their visits on the two
\* days after a day that ends a month
C21_Witness ==
    /\ digest.outcome = "sent"
    /\ digest.mails = 1
    /\ digest.listed = Ids
    /\ store["c1"].nextVisit # store["c2"].nextVisit
    /\ DateOf(Today).d = MonthLength(DateOf(Today).y, DateOf(Today).m)

\* C22: a remind request sends at most one email and changes no customer;
\* it sends none and answers, by the first of these that holds, 500 without
\* a transporter, 400 to a malformed id, 404 when the customer is not
\* stored, 400 when the customer has no email address and 500 without a
\* verified sender
C22_RemindChecks ==
    [][\A r \in Reqs :
          Arrival(r, {"remind"}) =>
              LET id == req'[r].id
                  status == req'[r].status
              IN  /\ store' = store
                  /\ req'[r].mails \in {0, 1}
                  /\ status # 200 => req'[r].mails = 0
                  /\ IF ~config.transporter THEN status = 500 /\ ~req'[r].db
                     ELSE IF id = BadId THEN status = 400 /\ ~req'[r].db
                     ELSE IF req'[r].failed THEN status = 500
                     ELSE IF id \notin DOMAIN store THEN status = 404
                     ELSE IF store[id].email = Null THEN status = 400
                     ELSE IF ~config.sender THEN status = 500
                     ELSE status = 200 /\ req'[r].mails = 1]_vars

\* a reminder for a stored customer without an email address has been
\* answered 400 on a server without a verified sender
C22_Witness ==
    /\ req[SeqReq].kind = "remind"
    /\ req[SeqReq].status = 400
    /\ req[SeqReq].id \in DOMAIN store
    /\ store[req[SeqReq].id].email = Null
    /\ ~config.sender
    /\ req[SeqReq].mails = 0

\* the two texts have the same length and, position by position, the same
\* code unit or the two cases of one letter A-Z
EqualIgnoringCase(a, b) ==
    /\ Len(a) = Len(b)
    /\ \A i \in 1..Len(a) :
          \/ a[i] = b[i]
          \/ a[i] \in 65..90 /\ b[i] = a[i] + 32
          \/ b[i] \in 65..90 /\ a[i] = b[i] + 32

\* C23: the session becomes logged in only in a login request, with
\* ADMIN_USER and ADMIN_PASS configured, whose username equals ADMIN_USER
\* ignoring case and whose password is ADMIN_PASS exactly; with either not
\* configured a login leaves the session logged out; a logout leaves it
\* logged out, and a request under /api arriving on a session that is not
\* logged in is answered 401
C23_Login ==
    [][/\ (~session /\ session') =>
             /\ page'.path = "/login"
             /\ page'.answer = "/"
             /\ config.adminUser /\ config.adminPass
             /\ page'.username # Null
             /\ EqualIgnoringCase(page'.username, AdminUser)
             /\ page'.password = AdminPass
       /\ (page = NoPage /\ page'.path = "/login"
                         /\ ~(config.adminUser /\ config.adminPass)) =>
             /\ ~session'
             /\ page'.answer = "/login?error=1"
       /\ (page = NoPage /\ page'.path = "/logout") => ~session'
       /\ \A r \in Reqs :
             (req[r].kind = "idle" /\ req'[r].kind # "idle" /\ ~session') =>
                 req'[r].status = 401]_vars

\* a login with the username "ad" and the password "p" has been accepted
\* where ADMIN_USER is "Ad", after customers were stored in an earlier login
C23_Witness ==
    /\ session
    /\ page.path = "/login"
    /\ page.answer = "/"
    /\ page.username = <<97, 100>>
    /\ page.password = AdminPass
    /\ store # <<>>

\* C24: a request for / on a session that is not logged in is redirected to
\* /login and is not answered with index.html
C24_RootProtected ==
    (page.path = "/" /\ ~session) =>
        /\ page.status = 302
        /\ page.answer = "/login"

\* the step hands a request to the fetch handler
FetchArrival == worker.event = NoEvent /\ worker'.event # NoEvent

\* the step is the settling of the handler's fetch(request)
FetchSettles ==
    worker.event.stage = "network" /\ worker'.event.stage = "answered"

\* C25: for a request whose path starts with /api/ the network is tried
\* first; a cached response is the answer only after the fetch has failed;
\* after a failed fetch with no matching entry the answer is the offline
\* page when the request accepts HTML and a 408 response otherwise; the
\* response is put in the dynamic cache only when its status is 200
C25_ApiNetworkFirst ==
    [][startsWith(worker'.event.path, ApiPrefix) =>
          /\ FetchArrival =>
                worker'.event.stage = "network" /\ worker'.event.tried
          /\ worker'.event.source = "cache" => worker'.event.failed
          /\ (FetchSettles /\ worker'.event.failed
                /\ Matches(worker.caches, worker.event.path,
                           worker.event.method) = {}) =>
                IF worker.event.html
                THEN worker'.event.source = "offline"
                ELSE worker'.event.source = "synthetic"
                        /\ worker'.event.status = 408
          /\ worker'.event.put # "none" =>
                /\ worker'.event.put = DYNAMIC_CACHE
                /\ worker'.event.source = "network"
                /\ worker'.event.status = 200]_vars

\* C26: a request whose path does not start with /api/ and that matches a
\* cache entry is answered from the cache and the network is not tried; on a
\* miss the network is tried, its response is the answer and is put in the
\* static cache exactly when its status is 200; every entry of every cache
\* has the status 200
C26_CacheFirst ==
    [][/\ (worker'.event # NoEvent
             /\ ~startsWith(worker'.event.path, ApiPrefix)) =>
             /\ FetchArrival =>
                   LET cached == Matches(worker.caches, worker'.event.path,
                                         worker'.event.method)
                   IN  IF cached # {}
                       THEN /\ worker'.event.stage = "answered"
                            /\ worker'.event.source = "cache"
                            /\ worker'.event.status \in cached
                            /\ ~worker'.event.tried
                       ELSE /\ worker'.event.stage = "network"
                            /\ worker'.event.tried
             /\ (FetchSettles /\ ~worker'.event.failed) =>
                   /\ worker'.event.source = "network"
                   /\ worker'.event.put =
                         IF worker'.event.status = 200 THEN STATIC_CACHE
                                                       ELSE "none"
       /\ \A n \in DOMAIN worker'.caches :
             \A q \in DOMAIN worker'.caches[n] : worker'.caches[n][q] = 200]_vars

\* /offline.html, which install does not store, is in the static cache, and
\* a request for it has been answered from the cache without the network
C26_Witness ==
    /\ worker.event.path = OfflineHtml
    /\ worker.event.stage = "answered"
    /\ worker.event.source = "cache"
    /\ ~worker.event.tried
    /\ STATIC_CACHE \in DOMAIN worker.caches
    /\ OfflineHtml \in DOMAIN worker.caches[STATIC_CACHE]

\* C27: once the activate handler has claimed the clients, none of its
\* deletions is pending, no cache exists under another name than the static
\* and the dynamic cache of this version, and the static cache exists
C27_Activated ==
    worker.claimed =>
        /\ worker.deleting = {}
        /\ DOMAIN worker.caches \subseteq {STATIC_CACHE, DYNAMIC_CACHE}
        /\ STATIC_CACHE \in DOMAIN worker.caches

\* the clients have been claimed after caches.keys() had listed two caches
\* of earlier versions next to the two of this version
C27_Witness ==
    /\ worker.claimed
    /\ worker.keys = {"static-v2", "ajk-crm-v3", STATIC_CACHE, DYNAMIC_CACHE}
    /\ DOMAIN worker.caches = {STATIC_CACHE, DYNAMIC_CACHE}

\* C28: the save of a list-read sets paymentStatus to Overdue only when the
\* stored paymentStatus is Pending at the time of the save, whatever edits
\* were served since the list-read's find
C28_OverdueOverPendingOnly ==
    [][\A r \in Reqs, id \in Ids :
          (/\ ListSaveStep(r, id)
           /\ id \in DOMAIN store
           /\ store[id].paymentStatus # "Overdue"
           /\ store'[id].paymentStatus = "Overdue") =>
              store[id].paymentStatus = "Pending"]_vars

\* C29: no step adds a customer to the store; the save of a list-read or of
\* a complete-job whose customer has been deleted since its find rejects and
\* leaves the store as it is
C29_NoResurrection ==
    [][/\ DOMAIN store' \subseteq DOMAIN store
       /\ \A r \in Reqs, id \in Ids :
             (ListSaveStep(r, id) /\ id \notin DOMAIN store) =>
                 store' = store /\ req'[r].failed
       /\ \A r \in Reqs :
             (/\ req[r].kind = "complete"
              /\ req[r].pending # {}
              /\ req'[r].pending = {}
              /\ req[r].id \notin DOMAIN store) =>
                 store' = store /\ req'[r].status = 500]_vars

\* the save of a list-read that had read the customer has rejected after
\* the customer was deleted, and the customer is not stored
C29_Witness ==
    /\ req[SeqReq].kind = "list"
    /\ SeqId \in DOMAIN req[SeqReq].docs
    /\ SeqId \notin req[SeqReq].pending
    /\ req[SeqReq].failed
    /\ SeqId \notin DOMAIN store

\* the first calendar date is before the second
Earlier(a, b) ==
    \/ a.y < b.y
    \/ a.y = b.y /\ a.m < b.m
    \/ a.y = b.y /\ a.m = b.m /\ a.d < b.d

\* C30: in no step of a list-read or a complete-job does the date of
\* nextVisit become earlier; a list-read changes neither nextVisit nor
\* recurring nor lastPayment, on its copy and in the store; the save of a
\* complete-job on a Weekly, Bi-weekly or Monthly customer stores a strictly
\* later date
C30_NextVisitMonotone ==
    [][\A id \in DOMAIN store \cap DOMAIN store' :
          /\ ~Earlier(DateOf(store'[id].nextVisit), DateOf(store[id].nextVisit))
          /\ \A r \in Reqs :
                /\ ListFindStep(r) =>
                      /\ req'[r].docs[id].nextVisit = store[id].nextVisit
                      /\ req'[r].docs[id].recurring = store[id].recurring
                      /\ req'[r].docs[id].lastPayment = store[id].lastPayment
                /\ ListSaveStep(r, id) =>
                      /\ store'[id].nextVisit = store[id].nextVisit
                      /\ store'[id].recurring = store[id].recurring
                      /\ store'[id].lastPayment = store[id].lastPayment
                /\ (CompleteSaveStep(r) /\ req[r].id = id
                      /\ store[id].recurring \in {"Weekly", "Bi-weekly", "Monthly"}) =>
                      Earlier(DateOf(store[id].nextVisit),
                              DateOf(store'[id].nextVisit))]_vars

\* a monthly customer with a payment on record has been listed, with the
\* auto-reset applied, and then advanced twice, and the visit is later than
\* at the start
C30_Witness ==
    /\ Completed(SeqReq)
    /\ completions = 2
    /\ lastPass # <<>>
    /\ store[SeqId].recurring = "Monthly"
    /\ before[SeqId].lastPayment # Null
    /\ before[SeqId].workStatus = "Completed"
    /\ before[SeqId].paymentStatus = "Paid"
    /\ Earlier(DateOf(before[SeqId].nextVisit), DateOf(store[SeqId].nextVisit))

====
